---- MODULE Spec2Model ----
(***************************************************************************)
(* Wi-Lab NetworkManager (src/wilab/wifi/manager.py) with the subsystems  *)
(* it sequences: DhcpServer, HostapdManager, NatManager, IsolationManager. *)
(* Request threads and the background expiry thread are processes with a   *)
(* program counter; one action is one step of the code between two points  *)
(* at which another thread can run (an external command, or two separate   *)
(* reads of the shared dict).                                              *)
(***************************************************************************)
EXTENDS Integers, Sequences, FiniteSets, TLC

----------------------------------------------------------------------------
(* Bounds of the model *)

\* the clock runs from 0 to MaxTime
MaxTime == 2
\* API requests issued in one behaviour with concurrent requests
MaxOps == 2
\* external failures (command errors, file deletions refused) in such a one
MaxFaults == 1
\* the same two budgets for the sequential histories
MaxSeqOps == 3
MaxSeqFaults == 2
\* and for the behaviours of one request thread beside the expiry thread
MaxLiveOps == 3
MaxLiveFaults == 1
\* and for the behaviours in which that request thread may call shutdown_all
MaxShutOps == 3
MaxShutFaults == 1
\* entries of a configuration whose subnets are allocated
MaxNets == 3
\* calls of the IsolationManager in one behaviour, and failures among them
MaxIsoOps == 5
MaxIsoFaults == 1
\* calls of a function on the same inputs
MaxCalls == 2
\* calls of enable_nat and disable_nat, and failing commands among them
MaxNatOps == 3
MaxNatFaults == 1
\* requests of the TX power control and of stop_network, and failures of
\* the iw commands among them
MaxPowerOps == 2
MaxPowerFaults == 1
\* calls of stop_network, disable_nat and remove_network on a host with
\* networks set up, and failures among them
MaxTeardownOps == 2
MaxTeardownFaults == 1
\* duplicates of a rule left by earlier runs, calls of enable_nat and
\* disable_nat on such a host, and failures among them
MaxDuplicates == 11
MaxDupOps == 2
MaxDupFaults == 1
\* calls of DhcpServer and HostapdManager, and failures among them
MaxDaemonOps == 3
MaxDaemonFaults == 1
\* requests that come to the isolation step together, and failing commands
MaxRaceOps == 2
MaxRaceFaults == 1
\* requests and failures of the behaviours in which the lock is a step of
\* its own
MaxLockOps == 2
MaxLockFaults == 1
\* hardware maxima of a channel that are tried, in tenths of a dBm: from
\* MaxBelowZero below zero up to MaxMaxDbm
MaxBelowZero == 30
MaxMaxDbm == 330
\* requests of the histories with enable_internet and disable_internet, and
\* failures among them
MaxInetOps == 3
MaxInetFaults == 1

----------------------------------------------------------------------------
(* Configuration and identifiers *)

\* config.networks, in configuration order
ConfigNets == {"a", "b"}
\* a net_id that the configuration does not list
UnknownId == "x"
NetIds == ConfigNets \cup {UnknownId}

ApiThreads == {"t1", "t2"}
LoopThread == "loop"
Threads == ApiThreads \cup {LoopThread}

\* the three rules enable_nat tags for one net_id
RuleKinds == {"masq", "fwd_in", "fwd_out"}
\* the order in which enable_nat adds them
RuleOrder == <<"masq", "fwd_in", "fwd_out">>

\* timeout of a request after clamping, in clock units
ReqTimeout == 1

VARIABLES
    now,        \* time.time()
    active,     \* NetworkManager.active: net_id -> NetworkStatus
    dhcpInst,   \* DhcpServer._instances: "none", "live" (daemon launched), "stale"
    apInst,     \* HostapdManager._instances: "none", "live", "stale"
    natRules,   \* iptables rules tagged for a net_id
    isoSubnets, \* IsolationManager._active_subnets
    pc,         \* position of each thread
    frame,      \* locals of the operation a thread runs
    items,      \* _expiry_loop: expired entries of its snapshot, not yet stopped
    result,     \* outcome of the operations returned since the last call began
    opsLeft,    \* API requests still to be issued
    faults,     \* external failures still to be injected
    net_ids,    \* shutdown_all: its snapshot of the keys, those not yet stopped
    lock,       \* NetworkManager._lock: the thread that holds it, or "free"
    forward,    \* iptables: the FORWARD chain of the filter table, in order
    postrouting,\* iptables: the POSTROUTING chain of the nat table, in order
    isoActive,  \* IsolationManager._active_subnets, as addresses
    resolved,   \* NatManager._resolved_upstream is set
    instances,  \* DhcpServer._instances and HostapdManager._instances, in full
    args,       \* inputs of the function or subsystem call under study
    ret         \* what that call returned or raised, and what it issued

vars == <<now, active, dhcpInst, apInst, natRules, isoSubnets,
          pc, frame, items, result, opsLeft, faults, net_ids, lock,
          forward, postrouting, isoActive, resolved, instances, args, ret>>

\* the state of the NetworkManager and of the threads that run it
mgr == <<now, active, dhcpInst, apInst, natRules, isoSubnets,
         pc, frame, items, result, opsLeft, faults, net_ids, lock>>

\* the state the subsystems are studied on by themselves
unit == <<forward, postrouting, isoActive, resolved, instances, args, ret>>

sys == <<active, dhcpInst, apInst, natRules, isoSubnets>>

NoStatus == [on |-> FALSE, ie |-> FALSE, exp |-> 0]
NoFrame == [op |-> "-", net |-> "-", req |-> FALSE, ie |-> FALSE, exp |-> 0, err |-> "-",
            sub |-> FALSE, log |-> <<>>, flt |-> FALSE]
NoResult == [op |-> "-", net |-> "-", out |-> "-", log |-> <<>>,
             sub |-> FALSE, ie |-> FALSE, flt |-> FALSE]

NoResults == [t \in Threads |-> NoResult]
\* all: the keys shutdown_all found, todo: those it has not come to yet,
\* err: a stop_network it called raised or had a failing sub-step
NoSnapshot == [all |-> {}, todo |-> {}, err |-> FALSE]

\* dhcp.py 28 and hostapd.py 26: no net_id is tracked
NoInstances == [dhcp |-> <<>>, hostapd |-> <<>>]

\* the subsystems as their constructors leave them, no call under study
UnitInit ==
    /\ forward = <<>>
    /\ postrouting = <<>>
    /\ isoActive = {}
    /\ resolved = FALSE
    /\ instances = NoInstances
    /\ args = <<>>
    /\ ret = <<>>

\* the state after NetworkManager.__init__: nothing active, nothing tracked,
\* the expiry thread started; ops and flts are the budgets of the behaviour
ManagerInit(ops, flts) ==
    /\ now = 0
    /\ active = [n \in ConfigNets |-> NoStatus]
    /\ dhcpInst = [n \in ConfigNets |-> "none"]
    /\ apInst = [n \in ConfigNets |-> "none"]
    /\ natRules = [n \in ConfigNets |-> {}]
    /\ isoSubnets = {}
    /\ pc = [t \in Threads |-> IF t = LoopThread THEN "sleep" ELSE "idle"]
    /\ frame = [t \in Threads |-> NoFrame]
    /\ items = {}
    /\ result = NoResults
    /\ opsLeft = ops
    /\ faults = flts
    /\ net_ids = NoSnapshot
    /\ lock = "free"

InitWith(ops, flts) == ManagerInit(ops, flts) /\ UnitInit

Init == InitWith(MaxOps, MaxFaults)

----------------------------------------------------------------------------
(* Failure injection: an external step fails only while the budget lasts *)

FailChoices == IF faults > 0 THEN {FALSE, TRUE} ELSE {FALSE}

Charge(f) == faults' = IF f THEN faults - 1 ELSE faults

----------------------------------------------------------------------------
(* DhcpServer: the record of one net_id *)

\* DhcpServer.start: an already tracked net_id returns its record unchanged;
\* the record is stored only after the daemon was launched
DhcpStart(inst, fail) ==
    IF inst # "none" THEN inst
    ELSE IF fail THEN "none" ELSE "live"

DhcpStartRaises(inst, fail) == inst = "none" /\ fail

\* DhcpServer.stop: kills the daemon and removes the PID file, then removes
\* the config file; when that removal raises, the handler logs and the
\* record stays (the del is skipped)
DhcpStop(inst, fail) ==
    IF inst = "none" THEN "none"
    ELSE IF fail THEN "stale" ELSE "none"

(* HostapdManager: the record of one net_id *)

HostapdStart(inst, fail) ==
    IF inst # "none" THEN inst
    ELSE IF fail THEN "none" ELSE "live"

HostapdStartRaises(inst, fail) == inst = "none" /\ fail

HostapdStop(inst, fail) ==
    IF inst = "none" THEN "none"
    ELSE IF fail THEN "stale" ELSE "none"

\* HostapdManager.is_running: tracked, PID file present, process alive
IsRunning(inst) == inst = "live"

(* NatManager: the rules tagged for one net_id *)

\* enable_nat: failAt = 0 is success; failAt = j is a failure no later than
\* the j-th rule (upstream discovery, ip_forward, or the append itself),
\* after the rules before it were added
EnableNat(rules, failAt) ==
    IF failAt = 0 THEN RuleKinds
    ELSE rules \cup {RuleOrder[i] : i \in 1..(failAt - 1)}

EnableNatRaises(failAt) == failAt # 0

\* disable_nat: every delete loop runs until its first failing delete; keep
\* is the set of rules whose delete command failed while the rule exists
DisableNat(rules, keep) == rules \cap keep

(* IsolationManager: the tracked subnets; the subnet of a network is fixed
   by its position in the configuration, so it is named by its net_id *)

AddNetwork(subnets, s) == subnets \cup {s}

\* a removal that forgets every tracked subnet
RemoveEvery(subnets, s) == {}

\* isolation.py 59: self._active_subnets.discard(subnet)
RemoveNetwork(subnets, s) == subnets \ {s}

----------------------------------------------------------------------------
(* NetworkManager helpers *)

\* net_id in self.active
InActive(n) == n \in ConfigNets /\ active[n].on

\* an expiry check with the comparison reversed
ExpiredReversed(st, t) == st.exp > t

\* manager.py 301 and 705: st._expires_at_timestamp < time.time()
Expired(st, t) == st.exp < t

\* an operation of an API thread is over with outcome r
Finish(t, r) ==
    /\ pc' = [pc EXCEPT ![t] = "idle"]
    /\ frame' = [frame EXCEPT ![t] = NoFrame]
    /\ result' = [result EXCEPT ![t] = r]

Outcome(f, o) ==
    [op |-> f.op, net |-> f.net, out |-> o,
     log |-> f.log, sub |-> f.sub, ie |-> f.ie, flt |-> f.flt]

\* an operation that returns in the step that calls it; a call clears the
\* outcomes of the operations that returned before it
Immediate(t, op, n, o) ==
    /\ result' = [NoResults EXCEPT ![t] = [NoResult EXCEPT !.op = op, !.net = n, !.out = o]]
    /\ UNCHANGED <<pc, frame>>

\* an operation that goes on at position p
Enter(t, op, n, ie, p) ==
    /\ pc' = [pc EXCEPT ![t] = p]
    /\ frame' = [frame EXCEPT ![t] = [NoFrame EXCEPT !.op = op, !.net = n,
                                                     !.req = ie, !.ie = ie]]
    /\ result' = NoResults

Goto(t, p) == pc' = [pc EXCEPT ![t] = p]

\* manager.py 702-714: after an entry of the snapshot the loop goes on with
\* the next one, and sleeps after the last
LoopContinue == IF items = {} THEN "sleep" ELSE "loop_next"

\* manager.py 498-503: after an entry of the snapshot shutdown_all goes on
\* with the next one, and returns after the last
ShutdownContinue == IF net_ids.todo = {} THEN "shut_end" ELSE "shut_next"

\* where stop_network goes when it is over: back to its caller
StopReturn(t, f) ==
    CASE f.op = "stop" -> Finish(t, Outcome(f, "returned")) /\ UNCHANGED net_ids
      [] f.op = "status" -> Finish(t, Outcome(f, "inactive")) /\ UNCHANGED net_ids
      [] f.op \in {"enable_internet", "disable_internet",
                   "set_tx_power_level", "get_tx_power_info"} ->
            Finish(t, Outcome(f, "inactive")) /\ UNCHANGED net_ids
      [] f.op = "start" ->
            /\ pc' = [pc EXCEPT ![t] = "start_dhcp"]
            /\ frame' = [frame EXCEPT ![t] = [f EXCEPT !.log = <<>>,
                                               !.sub = FALSE, !.flt = FALSE,
                                               !.ie = f.req]]
            /\ UNCHANGED <<result, net_ids>>
      [] f.op = "loop" ->
            /\ pc' = [pc EXCEPT ![t] = LoopContinue]
            /\ frame' = [frame EXCEPT ![t] = NoFrame]
            /\ result' = [result EXCEPT ![t] = Outcome(f, "returned")]
            /\ UNCHANGED net_ids
      [] f.op = "shutdown" ->
            /\ pc' = [pc EXCEPT ![t] = ShutdownContinue]
            /\ frame' = [frame EXCEPT ![t] = NoFrame]
            /\ net_ids' = [net_ids EXCEPT !.err = @ \/ f.flt]
            /\ UNCHANGED result

\* manager.py 707-710: the exception is logged, the for loop goes on
LoopAfterError == LoopContinue

\* a shutdown_all that the exception of one stop_network ends
ShutdownAfterErrorLeaves == "shut_end"

\* manager.py 500-501: the exception is logged, the for loop goes on
ShutdownAfterError == ShutdownContinue

\* an exception leaving stop_network: _expiry_loop and shutdown_all catch it
StopRaise(t, f) ==
    CASE f.op = "loop" ->
            /\ pc' = [pc EXCEPT ![t] = LoopAfterError]
            /\ frame' = [frame EXCEPT ![t] = NoFrame]
            /\ result' = [result EXCEPT ![t] = Outcome(f, "KeyError")]
            /\ UNCHANGED net_ids
      [] f.op = "shutdown" ->
            /\ pc' = [pc EXCEPT ![t] = ShutdownAfterError]
            /\ frame' = [frame EXCEPT ![t] = NoFrame]
            /\ net_ids' = [net_ids EXCEPT !.err = TRUE]
            /\ UNCHANGED result
      [] OTHER -> Finish(t, Outcome(f, "KeyError")) /\ UNCHANGED net_ids

----------------------------------------------------------------------------
(* NetworkManager.start_network *)

\* a start_network that skips the check of the active map
StartPreconditionNoConflict(n) ==
    IF n \notin ConfigNets THEN "not_found"
    ELSE IF IsRunning(apInst[n]) THEN "cleanup"
    ELSE "go"

\* manager.py 72-84: unknown net_id, already active, probe of the AP daemon
StartPrecondition(n) ==
    IF n \notin ConfigNets THEN "not_found"
    ELSE IF InActive(n) THEN "conflict"
    ELSE IF IsRunning(apInst[n]) THEN "cleanup"
    ELSE "go"

\* manager.py 59-84: start_network is called and checks its preconditions
start_network_check(t, n, ie) ==
    /\ pc[t] = "idle"
    /\ opsLeft > 0
    /\ opsLeft' = opsLeft - 1
    /\ IF StartPrecondition(n) \in {"not_found", "conflict"}
       THEN Immediate(t, "start", n, StartPrecondition(n))
       ELSE IF StartPrecondition(n) = "cleanup"
       THEN /\ pc' = [pc EXCEPT ![t] = "stop_sub"]
            /\ frame' = [frame EXCEPT ![t] = [NoFrame EXCEPT !.op = "start",
                                                            !.net = n, !.req = ie]]
            /\ result' = NoResults
       ELSE Enter(t, "start", n, ie, "start_dhcp")
    /\ UNCHANGED <<now, sys, items, faults>>
    /\ UNCHANGED <<net_ids, lock, unit>>

\* manager.py 86-130: expiry instant, subnet, interface validation, DHCP
start_network_dhcp(t) ==
    /\ pc[t] = "start_dhcp"
    /\ LET n == frame[t].net IN
       \E badIface \in FailChoices, fail \in FailChoices :
         /\ ~(badIface /\ fail)
         /\ fail => dhcpInst[n] = "none"
         /\ Charge(badIface \/ fail)
         /\ IF badIface
            THEN /\ Finish(t, Outcome(frame[t], "iface_error"))
                 /\ UNCHANGED dhcpInst
            ELSE IF DhcpStartRaises(dhcpInst[n], fail)
            THEN /\ Finish(t, Outcome(frame[t], "dhcp_error"))
                 /\ UNCHANGED dhcpInst
            ELSE /\ dhcpInst' = [dhcpInst EXCEPT ![n] = DhcpStart(@, fail)]
                 /\ Goto(t, "start_ap")
                 /\ frame' = [frame EXCEPT ![t].exp = now + ReqTimeout]
                 /\ UNCHANGED result
    /\ UNCHANGED <<now, active, apInst, natRules, isoSubnets, items, opsLeft>>
    /\ UNCHANGED <<net_ids, lock, unit>>

\* manager.py 132-146: hostapd; on failure the DHCP rollback comes next
start_network_hostapd(t) ==
    /\ pc[t] = "start_ap"
    /\ LET n == frame[t].net IN
       \E fail \in FailChoices :
         /\ fail => apInst[n] = "none"
         /\ Charge(fail)
         /\ IF HostapdStartRaises(apInst[n], fail)
            THEN /\ Goto(t, "start_rb_dhcp")
                 /\ frame' = [frame EXCEPT ![t].err = "ap_error"]
                 /\ UNCHANGED apInst
            ELSE /\ apInst' = [apInst EXCEPT ![n] = HostapdStart(@, fail)]
                 /\ Goto(t, "start_gw")
                 /\ UNCHANGED frame
    /\ UNCHANGED <<now, active, dhcpInst, natRules, isoSubnets, items, result, opsLeft>>
    /\ UNCHANGED <<net_ids, lock, unit>>

\* manager.py 154-170: gateway address on the interface
start_network_gateway(t) ==
    /\ pc[t] = "start_gw"
    /\ \E fail \in FailChoices :
         /\ Charge(fail)
         /\ IF fail
            THEN /\ Goto(t, "start_rb_ap")
                 /\ frame' = [frame EXCEPT ![t].err = "gw_error"]
            ELSE /\ Goto(t, "start_record")
                 /\ UNCHANGED frame
    /\ UNCHANGED <<now, sys, items, result, opsLeft>>
    /\ UNCHANGED <<net_ids, lock, unit>>

\* manager.py 171-173: rollback of hostapd after the gateway failure
start_network_rollback_hostapd(t) ==
    /\ pc[t] = "start_rb_ap"
    /\ LET n == frame[t].net IN
       \E fail \in FailChoices :
         /\ fail => apInst[n] # "none"
         /\ Charge(fail)
         /\ apInst' = [apInst EXCEPT ![n] = HostapdStop(@, fail)]
    /\ Goto(t, "start_rb_dhcp")
    /\ UNCHANGED <<now, active, dhcpInst, natRules, isoSubnets, frame, items, result, opsLeft>>
    /\ UNCHANGED <<net_ids, lock, unit>>

\* manager.py 147-152 and 174-177: rollback of DHCP, then the error is raised
start_network_rollback_dhcp(t) ==
    /\ pc[t] = "start_rb_dhcp"
    /\ LET n == frame[t].net IN
       \E fail \in FailChoices :
         /\ fail => dhcpInst[n] # "none"
         /\ Charge(fail)
         /\ dhcpInst' = [dhcpInst EXCEPT ![n] = DhcpStop(@, fail)]
    /\ Finish(t, Outcome(frame[t], frame[t].err))
    /\ UNCHANGED <<now, active, apInst, natRules, isoSubnets, items, opsLeft>>
    /\ UNCHANGED <<net_ids, lock, unit>>

\* the NetworkStatus start_network stores
NewStatus(f) == [on |-> TRUE, ie |-> f.ie, exp |-> f.exp]

\* manager.py 179-209: TX power (a failure is only logged), then the status
\* is stored in the active map; the log of a start_network lists the steps
\* whose failure it caught
start_network_record(t) ==
    /\ pc[t] = "start_record"
    /\ \E fail \in FailChoices :
         /\ Charge(fail)
         /\ frame' = [frame EXCEPT ![t].log = IF fail THEN Append(@, "tx") ELSE @]
    /\ active' = [active EXCEPT ![frame[t].net] = NewStatus(frame[t])]
    /\ Goto(t, IF frame[t].ie THEN "start_nat" ELSE "start_iso")
    /\ UNCHANGED <<now, dhcpInst, apInst, natRules, isoSubnets, items,
                   result, opsLeft>>
    /\ UNCHANGED <<net_ids, lock, unit>>

\* a start_network that rolls back when enable_nat raises
AfterEnableNatAbort(raised) == IF raised THEN "start_rb_ap" ELSE "start_iso"

\* manager.py 213-218: whether enable_nat raised or not, isolation is next
AfterEnableNat(raised) == "start_iso"

\* manager.py 211-218: NAT, a failure is only logged
start_network_nat(t) ==
    /\ pc[t] = "start_nat"
    /\ LET n == frame[t].net IN
       \E failAt \in 0..3 :
         /\ EnableNatRaises(failAt) => faults > 0
         /\ Charge(EnableNatRaises(failAt))
         /\ natRules' = [natRules EXCEPT ![n] = EnableNat(@, failAt)]
         /\ frame' = [frame EXCEPT ![t].log =
                         IF EnableNatRaises(failAt) THEN Append(@, "nat") ELSE @]
         /\ Goto(t, AfterEnableNat(EnableNatRaises(failAt)))
    /\ UNCHANGED <<now, active, dhcpInst, apInst, isoSubnets, items, result, opsLeft>>
    /\ UNCHANGED <<net_ids, lock, unit>>

\* manager.py 220-231: isolation, then the status is returned; add_network
\* raises when running iptables raises something else than CommandError
\* (isolation.py 32-34 run a command only for another tracked subnet), and
\* then has not added the subnet
start_network_isolation(t) ==
    /\ pc[t] = "start_iso"
    /\ LET n == frame[t].net IN
       \E fail \in FailChoices :
         /\ fail => (n \notin isoSubnets /\ isoSubnets # {})
         /\ Charge(fail)
         /\ isoSubnets' = IF fail THEN isoSubnets ELSE AddNetwork(isoSubnets, n)
         /\ Finish(t, Outcome([frame[t] EXCEPT !.log =
                                  IF fail THEN Append(@, "iso") ELSE @], "status"))
    /\ UNCHANGED <<now, active, dhcpInst, apInst, natRules, items, opsLeft>>
    /\ UNCHANGED <<net_ids, lock, unit>>

----------------------------------------------------------------------------
(* NetworkManager.stop_network *)

\* routes/network.py 100: the API calls stop_network
stop_network_call(t, n) ==
    /\ pc[t] = "idle"
    /\ opsLeft > 0
    /\ opsLeft' = opsLeft - 1
    /\ Enter(t, "stop", n, FALSE, "stop_sub")
    /\ UNCHANGED <<now, sys, items, faults>>
    /\ UNCHANGED <<net_ids, lock, unit>>

\* manager.py 244, first read: net_id in self.active
stop_network_subnet(t) ==
    /\ pc[t] = "stop_sub"
    /\ Goto(t, IF InActive(frame[t].net) THEN "stop_sub2" ELSE "stop_ap")
    /\ UNCHANGED <<now, sys, frame, items, result, opsLeft, faults>>
    /\ UNCHANGED <<net_ids, lock, unit>>

\* manager.py 244, second read: self.active[net_id].subnet, a KeyError when
\* the entry was deleted since the first read
stop_network_subnet2(t) ==
    /\ pc[t] = "stop_sub2"
    /\ IF InActive(frame[t].net)
       THEN /\ Goto(t, "stop_ap")
            /\ frame' = [frame EXCEPT ![t].sub = TRUE]
            /\ UNCHANGED <<result, net_ids>>
       ELSE StopRaise(t, frame[t])
    /\ UNCHANGED <<now, sys, items, opsLeft, faults>>
    /\ UNCHANGED <<lock, unit>>

\* a stop_network that gives up when stopping hostapd fails
AfterHostapdStopAbort(fail) == IF fail THEN "stop_del" ELSE "stop_natchk"

\* manager.py 249-253: a failure of hostapd_manager.stop is logged and the
\* NAT step comes next
AfterHostapdStop(fail) == "stop_natchk"

\* manager.py 246-250: hostapd_manager.stop
stop_network_hostapd(t) ==
    /\ pc[t] = "stop_ap"
    /\ LET n == frame[t].net IN
       \E fail \in FailChoices :
         /\ fail => (n \in ConfigNets /\ apInst[n] # "none")
         /\ Charge(fail)
         /\ apInst' = IF n \in ConfigNets
                      THEN [apInst EXCEPT ![n] = HostapdStop(@, fail)]
                      ELSE apInst
         /\ frame' = [frame EXCEPT ![t].log = Append(@, "ap"),
                                   ![t].flt = @ \/ fail]
         /\ Goto(t, AfterHostapdStop(fail))
    /\ UNCHANGED <<now, active, dhcpInst, natRules, isoSubnets, items, result, opsLeft>>
    /\ UNCHANGED <<net_ids, lock, unit>>

\* manager.py 253, first read: net_id in self.active
stop_network_natcheck(t) ==
    /\ pc[t] = "stop_natchk"
    /\ Goto(t, IF InActive(frame[t].net) THEN "stop_natchk2" ELSE "stop_iso")
    /\ UNCHANGED <<now, sys, frame, items, result, opsLeft, faults>>
    /\ UNCHANGED <<net_ids, lock, unit>>

\* manager.py 253, second read: self.active[net_id].internet_enabled
stop_network_natcheck2(t) ==
    /\ pc[t] = "stop_natchk2"
    /\ IF InActive(frame[t].net)
       THEN /\ Goto(t, IF active[frame[t].net].ie THEN "stop_nat" ELSE "stop_iso")
            /\ frame' = [frame EXCEPT ![t].ie = active[frame[t].net].ie]
            /\ UNCHANGED <<result, net_ids>>
       ELSE StopRaise(t, frame[t])
    /\ UNCHANGED <<now, sys, items, opsLeft, faults>>
    /\ UNCHANGED <<lock, unit>>

\* manager.py 254-257: nat_manager.disable_nat; an exception (upstream
\* discovery) is logged and leaves the rules as a failure of all deletes does
stop_network_nat(t) ==
    /\ pc[t] = "stop_nat"
    /\ LET n == frame[t].net IN
       \E keep \in SUBSET natRules[n] :
         /\ keep # {} => faults > 0
         /\ Charge(keep # {})
         /\ natRules' = [natRules EXCEPT ![n] = DisableNat(@, keep)]
         /\ frame' = [frame EXCEPT ![t].log = Append(@, "nat"),
                                   ![t].flt = @ \/ (keep # {})]
    /\ Goto(t, "stop_iso")
    /\ UNCHANGED <<now, active, dhcpInst, apInst, isoSubnets, items, result, opsLeft>>
    /\ UNCHANGED <<net_ids, lock, unit>>

\* manager.py 259-265: isolation_manager.remove_network, if a subnet was read
stop_network_isolation(t) ==
    /\ pc[t] = "stop_iso"
    /\ IF frame[t].sub
       THEN /\ isoSubnets' = RemoveNetwork(isoSubnets, frame[t].net)
            /\ frame' = [frame EXCEPT ![t].log = Append(@, "iso")]
       ELSE UNCHANGED <<isoSubnets, frame>>
    /\ Goto(t, "stop_dhcp")
    /\ UNCHANGED <<now, active, dhcpInst, apInst, natRules, items, result, opsLeft, faults>>
    /\ UNCHANGED <<net_ids, lock, unit>>

\* manager.py 267-271: dhcp_server.stop
stop_network_dhcp(t) ==
    /\ pc[t] = "stop_dhcp"
    /\ LET n == frame[t].net IN
       \E fail \in FailChoices :
         /\ fail => (n \in ConfigNets /\ dhcpInst[n] # "none")
         /\ Charge(fail)
         /\ dhcpInst' = IF n \in ConfigNets
                        THEN [dhcpInst EXCEPT ![n] = DhcpStop(@, fail)]
                        ELSE dhcpInst
         /\ frame' = [frame EXCEPT ![t].log = Append(@, "dhcp"),
                                   ![t].flt = @ \/ fail]
    /\ Goto(t, "stop_del")
    /\ UNCHANGED <<now, active, apInst, natRules, isoSubnets, items, result, opsLeft>>
    /\ UNCHANGED <<net_ids, lock, unit>>

\* manager.py 273-279: the entry is deleted under the lock if it is still
\* there, and stop_network returns
stop_network_delete(t) ==
    /\ pc[t] = "stop_del"
    /\ LET n == frame[t].net
           f == [frame[t] EXCEPT !.log = IF InActive(n) THEN Append(@, "del") ELSE @]
       IN /\ active' = IF InActive(n) THEN [active EXCEPT ![n] = NoStatus] ELSE active
          /\ StopReturn(t, f)
    /\ UNCHANGED <<now, dhcpInst, apInst, natRules, isoSubnets, items, opsLeft, faults>>
    /\ UNCHANGED <<lock, unit>>

----------------------------------------------------------------------------
(* NetworkManager.get_status *)

\* manager.py 292-311: unknown or inactive, lazily expired, or active
get_status(t, n) ==
    /\ pc[t] = "idle"
    /\ opsLeft > 0
    /\ opsLeft' = opsLeft - 1
    /\ IF n \notin ConfigNets
       THEN Immediate(t, "status", n, "none")
       ELSE IF ~InActive(n)
       THEN Immediate(t, "status", n, "inactive")
       ELSE IF Expired(active[n], now)
       THEN Enter(t, "status", n, FALSE, "stop_sub")
       ELSE Immediate(t, "status", n, "active")
    /\ UNCHANGED <<now, sys, items, faults>>
    /\ UNCHANGED <<net_ids, lock, unit>>

----------------------------------------------------------------------------
(* NetworkManager.enable_internet and disable_internet *)

\* a check that lets every configured net_id through
StatusKnown(n) == n \in ConfigNets

\* manager.py 350 and 388: if not st or not st.active, on what get_status
\* returns for a net_id whose expiry instant has not passed
StatusActive(n) == InActive(n)

\* manager.py 349-351 and 387-389: both begin with get_status and raise the
\* ValueError for an unknown or inactive net_id; get_status stops a network
\* whose expiry instant has passed and then reports it inactive
internet_call(t, op, n) ==
    /\ pc[t] = "idle"
    /\ opsLeft > 0
    /\ opsLeft' = opsLeft - 1
    /\ IF ~StatusActive(n)
       THEN Immediate(t, op, n, "inactive")
       ELSE IF Expired(active[n], now)
       THEN Enter(t, op, n, FALSE, "stop_sub")
       ELSE /\ pc' = [pc EXCEPT ![t] = "inet_nat"]
            /\ frame' = [frame EXCEPT ![t] =
                            [NoFrame EXCEPT !.op = op, !.net = n,
                                            !.ie = active[n].ie, !.exp = active[n].exp]]
            /\ result' = NoResults
    /\ UNCHANGED <<now, sys, items, faults>>
    /\ UNCHANGED <<net_ids, lock, unit>>

\* an enable_internet that calls enable_nat whatever the flag is
EnableNatAlways(st) == TRUE

\* manager.py 359: if not st.internet_enabled
EnableNatNeeded(st) == ~st.ie

\* manager.py 397: if st.internet_enabled
DisableNatNeeded(st) == st.ie

\* manager.py 359-365: enable_nat unless the flag is set; its exception
\* leaves enable_internet as a RuntimeError, before the flag is written
enable_internet_nat(t) ==
    /\ pc[t] = "inet_nat"
    /\ frame[t].op = "enable_internet"
    /\ LET n == frame[t].net IN
       IF EnableNatNeeded(frame[t])
       THEN \E failAt \in 0..3 :
              /\ EnableNatRaises(failAt) => faults > 0
              /\ Charge(EnableNatRaises(failAt))
              /\ natRules' = [natRules EXCEPT ![n] = EnableNat(@, failAt)]
              /\ IF EnableNatRaises(failAt)
                 THEN Finish(t, Outcome([frame[t] EXCEPT !.log = Append(@, "nat")],
                                        "nat_error"))
                 ELSE /\ Goto(t, "inet_set")
                      /\ frame' = [frame EXCEPT ![t].log = Append(@, "nat")]
                      /\ UNCHANGED result
       ELSE /\ Goto(t, "inet_set")
            /\ UNCHANGED <<natRules, frame, result, faults>>
    /\ UNCHANGED <<now, active, dhcpInst, apInst, isoSubnets, items, opsLeft>>
    /\ UNCHANGED <<net_ids, lock, unit>>

\* manager.py 397-403: disable_nat if the flag is set; its exception is
\* logged
disable_internet_nat(t) ==
    /\ pc[t] = "inet_nat"
    /\ frame[t].op = "disable_internet"
    /\ LET n == frame[t].net IN
       IF DisableNatNeeded(frame[t])
       THEN \E keep \in SUBSET natRules[n] :
              /\ keep # {} => faults > 0
              /\ Charge(keep # {})
              /\ natRules' = [natRules EXCEPT ![n] = DisableNat(@, keep)]
              /\ frame' = [frame EXCEPT ![t].log = Append(@, "nat"),
                                        ![t].flt = @ \/ (keep # {})]
       ELSE UNCHANGED <<natRules, frame, faults>>
    /\ Goto(t, "inet_set")
    /\ UNCHANGED <<now, active, dhcpInst, apInst, isoSubnets, items, result, opsLeft>>
    /\ UNCHANGED <<net_ids, lock, unit>>

\* manager.py 367-373 and 405-411: the flag is set on the status object and
\* the object is stored in the active map again
internet_set(t) ==
    /\ pc[t] = "inet_set"
    /\ active' = [active EXCEPT ![frame[t].net] =
                     [on |-> TRUE, ie |-> frame[t].op = "enable_internet",
                      exp |-> frame[t].exp]]
    /\ Finish(t, Outcome(frame[t], "status"))
    /\ UNCHANGED <<now, dhcpInst, apInst, natRules, isoSubnets, items, opsLeft, faults>>
    /\ UNCHANGED <<net_ids, lock, unit>>

\* a request of the internet control arrives on thread t
InternetCall(t) ==
    \/ \E n \in NetIds : internet_call(t, "enable_internet", n)
    \/ \E n \in NetIds : internet_call(t, "disable_internet", n)

InternetStep(t) ==
    \/ enable_internet_nat(t)
    \/ disable_internet_nat(t)
    \/ internet_set(t)

----------------------------------------------------------------------------
(* NetworkManager.shutdown_all *)

\* manager.py 494-497: the keys of the active map are copied
shutdown_all_call(t) ==
    /\ pc[t] = "idle"
    /\ opsLeft > 0
    /\ opsLeft' = opsLeft - 1
    /\ LET keys == {n \in ConfigNets : active[n].on}
       IN /\ net_ids' = [all |-> keys, todo |-> keys, err |-> FALSE]
          /\ pc' = [pc EXCEPT ![t] = IF keys = {} THEN "shut_end" ELSE "shut_next"]
    /\ frame' = [frame EXCEPT ![t] = NoFrame]
    /\ result' = NoResults
    /\ UNCHANGED <<now, sys, items, faults, lock, unit>>

\* manager.py 498-501: stop_network is called for the next key
shutdown_all_next(t) ==
    /\ pc[t] = "shut_next"
    /\ \E n \in net_ids.todo :
         /\ net_ids' = [net_ids EXCEPT !.todo = @ \ {n}]
         /\ pc' = [pc EXCEPT ![t] = "stop_sub"]
         /\ frame' = [frame EXCEPT ![t] = [NoFrame EXCEPT !.op = "shutdown", !.net = n]]
    /\ UNCHANGED <<now, sys, items, result, opsLeft, faults, lock, unit>>

\* manager.py 502-503: shutdown_all returns
shutdown_all_return(t) ==
    /\ pc[t] = "shut_end"
    /\ Finish(t, [NoResult EXCEPT !.op = "shutdown", !.out = "returned",
                                  !.flt = net_ids.err])
    /\ UNCHANGED <<now, sys, items, opsLeft, faults, net_ids, lock, unit>>

----------------------------------------------------------------------------
(* NetworkManager._expiry_loop *)

\* the entries of a snapshot whose expiry instant is before the sampled time
ExpiredItems == {n \in ConfigNets : active[n].on /\ Expired(active[n], now)}

\* manager.py 698-705: the snapshot taken under the lock; an iteration that
\* finds nothing expired changes nothing and sleeps again
expiry_loop_scan ==
    /\ pc[LoopThread] = "sleep"
    /\ ExpiredItems # {}
    /\ items' = ExpiredItems
    /\ Goto(LoopThread, "loop_next")
    /\ UNCHANGED <<now, sys, frame, result, opsLeft, faults>>
    /\ UNCHANGED <<net_ids, lock, unit>>

\* manager.py 702-710: the next expired entry of the snapshot is stopped
expiry_loop_next ==
    /\ pc[LoopThread] = "loop_next"
    /\ \E n \in items :
         /\ items' = items \ {n}
         /\ Enter(LoopThread, "loop", n, FALSE, "stop_sub")
    /\ UNCHANGED <<now, sys, opsLeft, faults>>
    /\ UNCHANGED <<net_ids, lock, unit>>

\* time passes
Tick ==
    /\ now < MaxTime
    /\ now' = now + 1
    /\ UNCHANGED <<sys, pc, frame, items, result, opsLeft, faults>>
    /\ UNCHANGED <<net_ids, lock, unit>>

----------------------------------------------------------------------------
(* Specifications *)

\* one step of the operation thread t runs
Step(t) ==
    \/ start_network_dhcp(t)
    \/ start_network_hostapd(t)
    \/ start_network_gateway(t)
    \/ start_network_rollback_hostapd(t)
    \/ start_network_rollback_dhcp(t)
    \/ start_network_record(t)
    \/ start_network_nat(t)
    \/ start_network_isolation(t)
    \/ stop_network_subnet(t)
    \/ stop_network_subnet2(t)
    \/ stop_network_hostapd(t)
    \/ stop_network_natcheck(t)
    \/ stop_network_natcheck2(t)
    \/ stop_network_nat(t)
    \/ stop_network_isolation(t)
    \/ stop_network_dhcp(t)
    \/ stop_network_delete(t)

\* an API request arrives on thread t
Call(t) ==
    \/ \E n \in NetIds, ie \in BOOLEAN : start_network_check(t, n, ie)
    \/ \E n \in NetIds : stop_network_call(t, n)
    \/ \E n \in NetIds : get_status(t, n)

Loop ==
    \/ expiry_loop_scan
    \/ expiry_loop_next
    \/ Step(LoopThread)

\* a request is served by the first free request thread
FirstFree(t) == \A u \in ApiThreads : pc[u] = "idle" => ~(u = "t1" /\ t = "t2")

\* request threads and the expiry thread interleave freely
Next ==
    \/ \E t \in ApiThreads : (FirstFree(t) /\ Call(t)) \/ Step(t)
    \/ Loop
    \/ Tick

Spec == Init /\ [][Next]_vars

\* no other thread is inside an operation
Quiet(t) == \A u \in Threads \ {t} : pc[u] \in {"idle", "sleep"}

\* sequential histories: an operation runs to its end before the next starts
SeqNext ==
    \/ \E t \in ApiThreads : Quiet(t) /\ FirstFree(t) /\ (Call(t) \/ Step(t))
    \/ Quiet(LoopThread) /\ Loop
    \/ Tick

SeqInit == InitWith(MaxSeqOps, MaxSeqFaults)

SeqSpec == SeqInit /\ [][SeqNext]_vars

\* one request thread beside the expiry thread
LiveNext ==
    \/ Call("t1")
    \/ Step("t1")
    \/ Loop
    \/ Tick

LiveInit == InitWith(MaxLiveOps, MaxLiveFaults)

\* one request thread that may also call shutdown_all, beside the expiry
\* thread
ShutNext ==
    \/ Call("t1")
    \/ shutdown_all_call("t1")
    \/ shutdown_all_next("t1")
    \/ shutdown_all_return("t1")
    \/ Step("t1")
    \/ Loop
    \/ Tick

ShutInit == InitWith(MaxShutOps, MaxShutFaults)

ShutSpec == ShutInit /\ [][ShutNext]_vars

\* the expiry thread is a daemon thread that the scheduler keeps running
LiveSpec == LiveInit /\ [][LiveNext]_vars /\ WF_vars(Loop)

\* sequential histories of one request thread with the internet control
InetNext ==
    \/ Call("t1")
    \/ InternetCall("t1")
    \/ Step("t1")
    \/ InternetStep("t1")
    \/ Tick

InetInit == InitWith(MaxInetOps, MaxInetFaults)

InetSpec == InetInit /\ [][InetNext]_vars

----------------------------------------------------------------------------
(* NetworkManager.set_tx_power_level and get_tx_power_info *)

\* models.py 14: the levels a request may name, and two that it may not
Levels == 1..4
RequestedLevels == 0..5
\* the levels of the requests that started the networks
InitialLevels == {1, 4}

\* the channels of the networks, and those the phy of the interface lists
\* (manager.py 530-550)
PowerChannels == {6, 13}
SupportedChannels == {6}

\* the NetworkStatus of a network start_network has stored (manager.py
\* 192-209), with its channel and its TX power level
PowerStatus(channel, level, ie) ==
    [on |-> TRUE, ie |-> ie, exp |-> ReqTimeout,
     channel |-> channel, tx_power_level |-> level]

\* one call of the TX power control: level is the level asked for by
\* set_tx_power_level and the current_level reported by get_tx_power_info
PowerRecord(op, net_id, level, out) ==
    [op |-> op, net |-> net_id, level |-> level, out |-> out]

\* a set_tx_power_level that forgets to store the level
StoreNoLevel(st, level) == st

\* manager.py 642-643: st.tx_power_level = level; self.active[net_id] = st
StoreLevel(st, level) == [st EXCEPT !.tx_power_level = level]

\* manager.py 629-644: get_status, the checks, _set_tx_power (567-622) and
\* the write of the level; get_status stops a network whose expiry instant
\* has passed and then reports it inactive
set_tx_power_level(t, n, level) ==
    /\ pc[t] = "idle"
    /\ opsLeft > 0
    /\ opsLeft' = opsLeft - 1
    /\ IF StatusActive(n) /\ Expired(active[n], now)
       THEN /\ Enter(t, "set_tx_power_level", n, FALSE, "stop_sub")
            /\ UNCHANGED <<active, faults, ret>>
       ELSE /\ result' = NoResults
            /\ UNCHANGED <<pc, frame>>
            /\ IF ~StatusActive(n)
               THEN /\ ret' = Append(ret, PowerRecord("set_tx_power_level", n,
                                                      level, "inactive"))
                    /\ UNCHANGED <<active, faults>>
               ELSE IF level \notin Levels
               THEN /\ ret' = Append(ret, PowerRecord("set_tx_power_level", n,
                                                      level, "bad_level"))
                    /\ UNCHANGED <<active, faults>>
               ELSE \E fail \in FailChoices :
                      /\ Charge(fail)
                      /\ IF fail
                         THEN /\ ret' = Append(ret,
                                    PowerRecord("set_tx_power_level", n, level,
                                                "command_error"))
                              /\ UNCHANGED active
                         ELSE IF active[n].channel \notin SupportedChannels
                         THEN /\ ret' = Append(ret,
                                    PowerRecord("set_tx_power_level", n, level,
                                                "bad_channel"))
                              /\ UNCHANGED active
                         ELSE /\ ret' = Append(ret,
                                    PowerRecord("set_tx_power_level", n, level,
                                                "ok"))
                              /\ active' = [active EXCEPT
                                               ![n] = StoreLevel(@, level)]
    /\ UNCHANGED <<now, dhcpInst, apInst, natRules, isoSubnets, items>>
    /\ UNCHANGED <<net_ids, lock, forward, postrouting, isoActive, resolved,
                   instances, args>>

\* manager.py 651-689: get_status, the checks, the stored level and the
\* capabilities of its channel
get_tx_power_info(t, n) ==
    /\ pc[t] = "idle"
    /\ opsLeft > 0
    /\ opsLeft' = opsLeft - 1
    /\ IF StatusActive(n) /\ Expired(active[n], now)
       THEN /\ Enter(t, "get_tx_power_info", n, FALSE, "stop_sub")
            /\ UNCHANGED <<faults, ret>>
       ELSE /\ result' = NoResults
            /\ UNCHANGED <<pc, frame>>
            /\ IF ~StatusActive(n)
               THEN /\ ret' = Append(ret, PowerRecord("get_tx_power_info", n,
                                                      0, "inactive"))
                    /\ UNCHANGED faults
               ELSE \E fail \in FailChoices :
                      /\ Charge(fail)
                      /\ ret' = Append(ret,
                            PowerRecord("get_tx_power_info", n,
                                IF fail \/ active[n].channel \notin SupportedChannels
                                THEN 0 ELSE active[n].tx_power_level,
                                IF fail THEN "command_error"
                                ELSE IF active[n].channel \notin SupportedChannels
                                THEN "bad_channel" ELSE "ok"))
    /\ UNCHANGED <<now, sys, items>>
    /\ UNCHANGED <<net_ids, lock, forward, postrouting, isoActive, resolved,
                   instances, args>>

\* networks that start_network has started at instant 0, each on a channel
\* and with the level of its request
PowerInit ==
    /\ now = 0
    /\ active \in [ConfigNets ->
                     {NoStatus} \cup {PowerStatus(c, l, ie) : c \in PowerChannels,
                                                            l \in InitialLevels,
                                                            ie \in BOOLEAN}]
    /\ dhcpInst = [n \in ConfigNets |-> IF active[n].on THEN "live" ELSE "none"]
    /\ apInst = [n \in ConfigNets |-> IF active[n].on THEN "live" ELSE "none"]
    /\ natRules = [n \in ConfigNets |-> IF active[n].ie THEN RuleKinds ELSE {}]
    /\ isoSubnets = {n \in ConfigNets : active[n].on}
    /\ pc = [t \in Threads |-> IF t = LoopThread THEN "sleep" ELSE "idle"]
    /\ frame = [t \in Threads |-> NoFrame]
    /\ items = {}
    /\ result = NoResults
    /\ opsLeft = MaxPowerOps
    /\ faults = MaxPowerFaults
    /\ net_ids = NoSnapshot
    /\ lock = "free"
    /\ UnitInit

\* one step of a stop_network on thread t
StopStep(t) ==
    \/ stop_network_subnet(t)
    \/ stop_network_subnet2(t)
    \/ stop_network_hostapd(t)
    \/ stop_network_natcheck(t)
    \/ stop_network_natcheck2(t)
    \/ stop_network_nat(t)
    \/ stop_network_isolation(t)
    \/ stop_network_dhcp(t)
    \/ stop_network_delete(t)

\* sequential histories of one request thread with the TX power control
PowerNext ==
    \/ \E n \in NetIds, level \in RequestedLevels : set_tx_power_level("t1", n, level)
    \/ \E n \in NetIds : get_tx_power_info("t1", n)
    \/ \E n \in NetIds : stop_network_call("t1", n)
    \/ StopStep("t1")
    \/ Tick

PowerSpec == PowerInit /\ [][PowerNext]_vars

----------------------------------------------------------------------------
(* NetworkManager._lock: the two `with self._lock` blocks step by step *)

\* a lock that stays with the thread that took it
ReleaseNever(t) == t

\* manager.py 275-277 and 700-701: the end of the with block
Release(t) == "free"

\* manager.py 274: net_id in self.active, read without the lock
stop_network_delete_check(t) ==
    /\ pc[t] = "stop_del"
    /\ IF InActive(frame[t].net)
       THEN /\ Goto(t, "stop_lock")
            /\ UNCHANGED <<frame, result, net_ids>>
       ELSE StopReturn(t, frame[t])
    /\ UNCHANGED <<now, sys, items, opsLeft, faults>>
    /\ UNCHANGED <<lock, unit>>

\* manager.py 275: with self._lock, the thread waits while another holds it
stop_network_acquire(t) ==
    /\ pc[t] = "stop_lock"
    /\ lock = "free"
    /\ lock' = t
    /\ Goto(t, "stop_locked")
    /\ UNCHANGED <<now, sys, frame, items, result, opsLeft, faults, net_ids, unit>>

\* manager.py 276-279: the entry is deleted if it is still there, the lock
\* is released and stop_network returns
stop_network_locked(t) ==
    /\ pc[t] = "stop_locked"
    /\ lock = t
    /\ LET n == frame[t].net
           f == [frame[t] EXCEPT !.log = IF InActive(n) THEN Append(@, "del") ELSE @]
       IN /\ active' = IF InActive(n) THEN [active EXCEPT ![n] = NoStatus] ELSE active
          /\ StopReturn(t, f)
    /\ lock' = Release(t)
    /\ UNCHANGED <<now, dhcpInst, apInst, natRules, isoSubnets, items, opsLeft, faults>>
    /\ UNCHANGED unit

\* manager.py 698-700: the time is sampled and the lock is taken; an
\* iteration that finds nothing expired changes nothing
expiry_loop_acquire ==
    /\ pc[LoopThread] = "sleep"
    /\ ExpiredItems # {}
    /\ lock = "free"
    /\ lock' = LoopThread
    /\ Goto(LoopThread, "loop_locked")
    /\ frame' = [frame EXCEPT ![LoopThread] = [NoFrame EXCEPT !.exp = now]]
    /\ UNCHANGED <<now, sys, items, result, opsLeft, faults, net_ids, unit>>

\* manager.py 701-705: the snapshot, the lock is released, the entries that
\* had expired at the sampled time are those to stop
expiry_loop_snapshot ==
    /\ pc[LoopThread] = "loop_locked"
    /\ lock = LoopThread
    /\ LET due == {n \in ConfigNets :
                     active[n].on /\ Expired(active[n], frame[LoopThread].exp)}
       IN /\ items' = due
          /\ Goto(LoopThread, IF due = {} THEN "sleep" ELSE "loop_next")
    /\ lock' = Release(LoopThread)
    /\ frame' = [frame EXCEPT ![LoopThread] = NoFrame]
    /\ UNCHANGED <<now, sys, result, opsLeft, faults, net_ids, unit>>

\* one step of the operation thread t runs
LockStep(t) ==
    \/ start_network_dhcp(t)
    \/ start_network_hostapd(t)
    \/ start_network_gateway(t)
    \/ start_network_rollback_hostapd(t)
    \/ start_network_rollback_dhcp(t)
    \/ start_network_record(t)
    \/ start_network_nat(t)
    \/ start_network_isolation(t)
    \/ stop_network_subnet(t)
    \/ stop_network_subnet2(t)
    \/ stop_network_hostapd(t)
    \/ stop_network_natcheck(t)
    \/ stop_network_natcheck2(t)
    \/ stop_network_nat(t)
    \/ stop_network_isolation(t)
    \/ stop_network_dhcp(t)
    \/ stop_network_delete_check(t)
    \/ stop_network_acquire(t)
    \/ stop_network_locked(t)

LockLoop ==
    \/ expiry_loop_acquire
    \/ expiry_loop_snapshot
    \/ expiry_loop_next
    \/ LockStep(LoopThread)

LockNext ==
    \/ \E t \in ApiThreads : (FirstFree(t) /\ Call(t)) \/ LockStep(t)
    \/ LockLoop
    \/ Tick

LockInit == InitWith(MaxLockOps, MaxLockFaults)

LockSpec == LockInit /\ [][LockNext]_vars

----------------------------------------------------------------------------
(* NetworkManager._get_subnet *)

\* third octets of dhcp_base_network that are tried
BaseOctets == {0, 120, 253, 254, 255}
\* prefix lengths of dhcp_base_network that are tried; AppConfig accepts /24
\* only, _get_subnet checks it again
PrefixLens == {16, 24}
\* the net_ids of the entries, and one that no entry has
EntryIds == {"ap-01", "ap-02", "ap-03"}
NoEntryId == "ap-99"

\* sequences of distinct net_ids: NetworkEntry.net_id is unique
RECURSIVE Configs(_)
Configs(k) ==
    IF k = 0 THEN {<<>>}
    ELSE LET shorter == Configs(k - 1)
         IN shorter \cup {Append(c, e) : c \in {d \in shorter : Len(d) = k - 1},
                                          e \in EntryIds}

Distinct(c) == \A i, j \in 1..Len(c) : c[i] = c[j] => i = j

\* list.index: the 0-based position of the first entry equal to x, -1 for
\* the ValueError
RECURSIVE IndexFrom(_, _, _)
IndexFrom(c, x, i) ==
    IF i > Len(c) THEN -1
    ELSE IF c[i] = x THEN i - 1
    ELSE IndexFrom(c, x, i + 1)

Index(c, x) == IndexFrom(c, x, 1)

\* IPv4Network(base, strict=False).network_address: the host bits are zero
NetworkAddress(base) ==
    IF base.prefix = 24 THEN <<base.addr[1], base.addr[2], base.addr[3], 0>>
    ELSE <<base.addr[1], base.addr[2], 0, 0>>

\* a _get_subnet that takes the octet without the index
GetSubnetSameForAll(base, networks, net_id) ==
    IF Index(networks, net_id) < 0 THEN [err |-> "unknown"]
    ELSE [err |-> "-", addr |-> NetworkAddress(base), prefix |-> 24]

\* manager.py 37-57
GetSubnet(base, networks, net_id) ==
    IF Index(networks, net_id) < 0 THEN [err |-> "unknown"]
    ELSE IF base.prefix # 24 THEN [err |-> "not_24"]
    ELSE LET octets == NetworkAddress(base)
             third_octet == octets[3] + Index(networks, net_id)
         IN IF third_octet > 255 THEN [err |-> "overflow"]
            ELSE [err |-> "-", addr |-> [octets EXCEPT ![3] = third_octet],
                  prefix |-> 24]

SubnetArgs ==
    [fn : {"_get_subnet"},
     base : [addr : {<<192, 168, o, h>> : o \in BaseOctets, h \in {0, 7}},
             prefix : PrefixLens],
     networks : {c \in Configs(MaxNets) : Len(c) > 0 /\ Distinct(c)},
     net_id : EntryIds \cup {NoEntryId}]

\* _get_subnet is called once more on the same configuration
get_subnet_call ==
    /\ args \in SubnetArgs
    /\ Len(ret) < MaxCalls
    /\ ret' = Append(ret, GetSubnet(args.base, args.networks, args.net_id))
    /\ UNCHANGED <<mgr, forward, postrouting, isoActive, resolved, instances, args>>

SubnetInit ==
    /\ ManagerInit(0, 0)
    /\ forward = <<>>
    /\ postrouting = <<>>
    /\ isoActive = {}
    /\ resolved = FALSE
    /\ instances = NoInstances
    /\ args \in SubnetArgs
    /\ ret = <<>>

SubnetNext == get_subnet_call

SubnetSpec == SubnetInit /\ [][SubnetNext]_vars

----------------------------------------------------------------------------
(* NetworkManager.start_network: the expiry instant *)

\* config.py 26-28
default_timeout == 3600
max_timeout == 86400
min_timeout == 60

\* NetworkCreateRequest.timeout: Optional[int], None when not supplied
NoTimeout == [given |-> FALSE, value |-> 0]
Timeouts ==
    {NoTimeout} \cup
    [given : {TRUE},
     value : {-5, 0, 1, 10, 59, 60, 61, 3600, 86399, 86400, 86401, 100000}]

\* instants at which start_network is called
CallTimes == {0, 5, 1000, 50000, 1000000}

\* manager.py 88: req.timeout or self.config.default_timeout; None and 0 are
\* the falsy values of an Optional[int]
TimeoutOrDefault(t) ==
    IF ~t.given \/ t.value = 0 THEN default_timeout ELSE t.value

\* manager.py 90-94
Clamp(timeout) ==
    LET raised == IF timeout < min_timeout THEN min_timeout ELSE timeout
    IN IF raised > max_timeout THEN max_timeout ELSE raised

\* manager.py 87-96: expires_at_timestamp
ExpiresAt(t, at) == at + Clamp(TimeoutOrDefault(t))

ExpiryArgs == [fn : {"expires_at"}, timeout : Timeouts, now : CallTimes]

\* start_network computes the expiry instant of a request
start_network_expiry ==
    /\ args \in ExpiryArgs
    /\ ret = <<>>
    /\ ret' = <<ExpiresAt(args.timeout, args.now)>>
    /\ UNCHANGED <<mgr, forward, postrouting, isoActive, resolved, instances, args>>

ExpiryInit ==
    /\ ManagerInit(0, 0)
    /\ forward = <<>>
    /\ postrouting = <<>>
    /\ isoActive = {}
    /\ resolved = FALSE
    /\ instances = NoInstances
    /\ args \in ExpiryArgs
    /\ ret = <<>>

ExpiryNext == start_network_expiry

ExpirySpec == ExpiryInit /\ [][ExpiryNext]_vars

----------------------------------------------------------------------------
(* NetworkManager._compute_level_dbm; powers are in tenths of a dBm, the
   unit of `iw phy info` and of round(x, 1) *)

MaxDbms == (0 - MaxBelowZero)..MaxMaxDbm

Max(a, b) == IF a >= b THEN a ELSE b

\* round(num / den, 1) in tenths: the nearest tenth; when num / den lies
\* half way between two tenths the float that stands for it decides, up
\* says which way
Round(num, den, up) ==
    LET lo == num \div den
        rem == num % den
    IN IF 2 * rem < den THEN lo
       ELSE IF 2 * rem > den THEN lo + 1
       ELSE IF up THEN lo + 1 ELSE lo

\* the way each of the three products is rounded when it is half way
Roundings == [1..3 -> BOOLEAN]

\* a _compute_level_dbm without lines 561-564
ComputeLevelDbmRaw(max_dbm, up) ==
    <<Round(max_dbm, 4, up[1]), Round(2 * max_dbm, 4, up[2]),
      Round(3 * max_dbm, 4, up[3]), max_dbm>>

\* manager.py 552-565: levels 1 to 4
ComputeLevelDbm(max_dbm, up) ==
    LET l1 == Max(10, Round(max_dbm, 4, up[1]))
        l2 == Max(l1, Round(2 * max_dbm, 4, up[2]))
        l3 == Max(l2, Round(3 * max_dbm, 4, up[3]))
        l4 == Max(l3, max_dbm)
    IN <<l1, l2, l3, l4>>

\* manager.py 583 and 667: the levels are computed for the maximum of the
\* channel
compute_level_dbm ==
    /\ Len(ret) < MaxCalls
    /\ \E up \in Roundings :
         ret' = Append(ret, ComputeLevelDbm(args.max_dbm, up))
    /\ UNCHANGED <<mgr, forward, postrouting, isoActive, resolved, instances, args>>

TxInit ==
    /\ ManagerInit(0, 0)
    /\ forward = <<>>
    /\ postrouting = <<>>
    /\ isoActive = {}
    /\ resolved = FALSE
    /\ instances = NoInstances
    /\ args \in [max_dbm : MaxDbms]
    /\ ret = <<>>

TxNext == compute_level_dbm

TxSpec == TxInit /\ [][TxNext]_vars

----------------------------------------------------------------------------
(* iptables: a chain is the sequence of its rules *)

\* a rule of the host that no subsystem of the service has installed
HostRule == [kind |-> "ACCEPT", src |-> "-", dst |-> "-", tag |-> "host"]

RECURSIVE DeleteFirst(_, _)
DeleteFirst(chain, rule) ==
    IF chain = <<>> THEN <<>>
    ELSE IF Head(chain) = rule THEN Tail(chain)
    ELSE <<Head(chain)>> \o DeleteFirst(Tail(chain), rule)

InChain(chain, rule) == \E i \in 1..Len(chain) : chain[i] = rule

\* iptables -A appends, -I inserts at position 1, -D deletes the first rule
\* that matches
Iptables(chain, cmd) ==
    CASE cmd.flag = "-A" -> Append(chain, cmd.rule)
      [] cmd.flag = "-I" -> <<cmd.rule>> \o chain
      [] cmd.flag = "-D" -> DeleteFirst(chain, cmd.rule)

\* iptables -D exits non-zero when no rule matches
IptablesFails(chain, cmd) == cmd.flag = "-D" /\ ~InChain(chain, cmd.rule)

\* the commands cmds run in order on a chain; the failAt-th fails although
\* it could have succeeded (0: none does), its CommandError is caught and
\* the next command runs
RECURSIVE RunFrom(_, _, _, _)
RunFrom(chain, cmds, i, failAt) ==
    IF i > Len(cmds) THEN chain
    ELSE RunFrom(IF i = failAt THEN chain ELSE Iptables(chain, cmds[i]),
                 cmds, i + 1, failAt)

RunAll(chain, cmds, failAt) == RunFrom(chain, cmds, 1, failAt)

\* the same when the failure of the failAt-th command is no CommandError:
\* nobody catches it before the caller, the commands after it do not run
RunUntil(chain, cmds, failAt) == RunFrom(chain, SubSeq(cmds, 1, failAt - 1), 1, 0)

----------------------------------------------------------------------------
(* IsolationManager *)

\* subnets as the first three octets of a /24; the base network of a
\* configuration need not be in 192.168.0.0/16
WifiSubnets == {<<192, 168, 10>>, <<192, 168, 11>>, <<192, 168, 12>>}
OtherSubnets == {<<10, 0, 0>>}
Subnets == WifiSubnets \cup OtherSubnets

\* isolation.py 74: source.startswith("192.168.")
IsWifiSubnet(subnet) == subnet[1] = 192 /\ subnet[2] = 168

DropRule(source, destination) ==
    [kind |-> "DROP", src |-> source, dst |-> destination, tag |-> "wilab-isolation"]

\* a _block_traffic without the guard on the two subnets
BlockTrafficUnguarded(source, destination) ==
    <<[flag |-> "-A", rule |-> DropRule(source, destination)]>>

\* isolation.py 62-91: the commands _block_traffic issues
BlockTraffic(source, destination) ==
    IF IsWifiSubnet(source) /\ IsWifiSubnet(destination)
    THEN <<[flag |-> "-A", rule |-> DropRule(source, destination)]>>
    ELSE <<>>

\* isolation.py 93-115: the command _unblock_traffic issues
UnblockTraffic(source, destination) ==
    <<[flag |-> "-D", rule |-> DropRule(source, destination)]>>

\* the orders in which a for loop may go through the set of subnets
Orders(set) ==
    {q \in [1..Cardinality(set) -> set] :
        \A i, j \in 1..Cardinality(set) : q[i] = q[j] => i = j}

\* an add_network that blocks the new subnet towards the tracked ones only
RECURSIVE AddCommandsOneWay(_, _, _)
AddCommandsOneWay(subnet, ord, i) ==
    IF i > Len(ord) THEN <<>>
    ELSE BlockTraffic(subnet, ord[i]) \o AddCommandsOneWay(subnet, ord, i + 1)

\* isolation.py 32-34: the commands of add_network, going through the
\* tracked subnets in the order ord
RECURSIVE AddCommands(_, _, _)
AddCommands(subnet, ord, i) ==
    IF i > Len(ord) THEN <<>>
    ELSE BlockTraffic(subnet, ord[i]) \o BlockTraffic(ord[i], subnet)
           \o AddCommands(subnet, ord, i + 1)

\* a remove_network that unblocks the subnet towards the others only
RECURSIVE RemoveCommandsOneWay(_, _, _)
RemoveCommandsOneWay(subnet, ord, i) ==
    IF i > Len(ord) THEN <<>>
    ELSE (IF ord[i] # subnet THEN UnblockTraffic(subnet, ord[i]) ELSE <<>>)
           \o RemoveCommandsOneWay(subnet, ord, i + 1)

\* isolation.py 53-56: the commands of remove_network
RECURSIVE RemoveCommands(_, _, _)
RemoveCommands(subnet, ord, i) ==
    IF i > Len(ord) THEN <<>>
    ELSE (IF ord[i] # subnet
          THEN UnblockTraffic(subnet, ord[i]) \o UnblockTraffic(ord[i], subnet)
          ELSE <<>>)
           \o RemoveCommands(subnet, ord, i + 1)

\* positions at which a failure may be injected into cmds
FailPositions(cmds) == IF faults > 0 THEN 0..Len(cmds) ELSE {0}

\* one call and what it issued; failed: a command of it was made to fail,
\* raised: the call ended with the exception of that command
CallRecord(op, subnet, issued, failed, raised) ==
    [op |-> op, subnet |-> subnet, issued |-> issued, failed |-> failed,
     raised |-> raised]

\* isolation.py 18-38
add_network ==
    /\ opsLeft > 0
    /\ opsLeft' = opsLeft - 1
    /\ \E subnet \in Subnets :
         IF subnet \in isoActive
         THEN /\ ret' = Append(ret, CallRecord("add_network", subnet, <<>>, FALSE, FALSE))
              /\ UNCHANGED <<forward, isoActive, faults>>
         ELSE \E ord \in Orders(isoActive) :
                LET cmds == AddCommands(subnet, ord, 1)
                IN \E failAt \in FailPositions(cmds), raises \in BOOLEAN :
                     /\ raises => failAt # 0
                     /\ forward' = IF raises THEN RunUntil(forward, cmds, failAt)
                                   ELSE RunAll(forward, cmds, failAt)
                     /\ isoActive' = IF raises THEN isoActive ELSE isoActive \cup {subnet}
                     /\ Charge(failAt # 0)
                     /\ ret' = Append(ret, CallRecord("add_network", subnet,
                                         IF raises THEN SubSeq(cmds, 1, failAt) ELSE cmds,
                                         failAt # 0, raises))
    /\ UNCHANGED <<now, sys, pc, frame, items, result, net_ids, lock,
                   postrouting, resolved, instances, args>>

\* isolation.py 40-60
remove_network ==
    /\ opsLeft > 0
    /\ opsLeft' = opsLeft - 1
    /\ \E subnet \in Subnets :
         IF subnet \notin isoActive
         THEN /\ ret' = Append(ret, CallRecord("remove_network", subnet, <<>>, FALSE, FALSE))
              /\ UNCHANGED <<forward, isoActive, faults>>
         ELSE \E ord \in Orders(isoActive) :
                LET cmds == RemoveCommands(subnet, ord, 1)
                IN \E failAt \in FailPositions(cmds), raises \in BOOLEAN :
                     /\ raises => failAt # 0
                     /\ forward' = IF raises THEN RunUntil(forward, cmds, failAt)
                                   ELSE RunAll(forward, cmds, failAt)
                     /\ isoActive' = IF raises THEN isoActive ELSE isoActive \ {subnet}
                     /\ Charge(failAt # 0)
                     /\ ret' = Append(ret, CallRecord("remove_network", subnet,
                                         IF raises THEN SubSeq(cmds, 1, failAt) ELSE cmds,
                                         failAt # 0, raises))
    /\ UNCHANGED <<now, sys, pc, frame, items, result, net_ids, lock,
                   postrouting, resolved, instances, args>>

\* isolation.py 128-129: the commands of flush_all from its i-th subnet on.
\* ord is the order of the set; a discard keeps the order of the others, so
\* the remove_network of ord[i] goes through ord[i], ..., ord[Len(ord)]
RECURSIVE FlushCommands(_, _)
FlushCommands(ord, i) ==
    IF i > Len(ord) THEN <<>>
    ELSE RemoveCommands(ord[i], SubSeq(ord, i, Len(ord)), 1)
           \o FlushCommands(ord, i + 1)

\* the subnets flush_all has not yet discarded when its failAt-th command
\* is issued, the i-th remove_network being the first one looked at
RECURSIVE FlushRemaining(_, _, _)
FlushRemaining(ord, i, failAt) ==
    LET own == Len(RemoveCommands(ord[i], SubSeq(ord, i, Len(ord)), 1))
    IN IF failAt <= own THEN {ord[j] : j \in i..Len(ord)}
       ELSE FlushRemaining(ord, i + 1, failAt - own)

\* isolation.py 121-132
flush_all ==
    /\ opsLeft > 0
    /\ opsLeft' = opsLeft - 1
    /\ \E ord \in Orders(isoActive) :
         LET cmds == FlushCommands(ord, 1)
         IN \E failAt \in FailPositions(cmds), raises \in BOOLEAN :
              /\ raises => failAt # 0
              /\ forward' = IF raises THEN RunUntil(forward, cmds, failAt)
                            ELSE RunAll(forward, cmds, failAt)
              /\ isoActive' = IF raises THEN FlushRemaining(ord, 1, failAt) ELSE {}
              /\ Charge(failAt # 0)
              /\ ret' = Append(ret, CallRecord("flush_all", <<>>,
                                  IF raises THEN SubSeq(cmds, 1, failAt) ELSE cmds,
                                  failAt # 0, raises))
    /\ UNCHANGED <<now, sys, pc, frame, items, result, net_ids, lock,
                   postrouting, resolved, instances, args>>

\* an empty IsolationManager on a host whose FORWARD chain has a rule
IsoInit ==
    /\ ManagerInit(MaxIsoOps, MaxIsoFaults)
    /\ forward = <<HostRule>>
    /\ postrouting = <<>>
    /\ isoActive = {}
    /\ resolved = FALSE
    /\ instances = NoInstances
    /\ args = <<>>
    /\ ret = <<>>

IsoNext ==
    \/ add_network
    \/ remove_network
    \/ flush_all

IsoSpec == IsoInit /\ [][IsoNext]_vars

----------------------------------------------------------------------------
(* IsolationManager.add_network as two request threads run it *)

\* manager.py 100: the subnet of a configured net_id, base network 192.168.10.0
NetSubnet(n) == IF n = "a" THEN <<192, 168, 10>> ELSE <<192, 168, 11>>

\* a subnet that may be tracked before the two requests arrive
ThirdSubnet == <<192, 168, 12>>

\* the locals of an add_network: its subnet, the subnets its set iterator
\* has still to yield, the size of the set when the iterator was made
NoCall == [subnet |-> <<>>, todo |-> <<>>, used |-> 0]

\* what a start_network returned: log lists the steps whose exception it
\* caught, failed: a command of it was made to fail
NoReturn == [out |-> "-", log |-> <<>>, failed |-> FALSE]

\* manager.py 220-222: start_network(n) has stored its status and comes to
\* the isolation step; the two requests are for different net_ids
race_call(t, n) ==
    /\ pc[t] = "idle"
    /\ opsLeft > 0
    /\ \A u \in ApiThreads : args[u].subnet # NetSubnet(n)
    /\ opsLeft' = opsLeft - 1
    /\ pc' = [pc EXCEPT ![t] = "iso_check"]
    /\ args' = [args EXCEPT ![t] = [NoCall EXCEPT !.subnet = NetSubnet(n)]]
    /\ UNCHANGED <<now, sys, frame, items, result, faults, net_ids, lock,
                   forward, postrouting, isoActive, resolved, instances, ret>>

\* manager.py 222-231: add_network has returned, or its exception was
\* caught at 224; start_network returns the status
RaceReturn(t, raised, failed) ==
    /\ pc' = [pc EXCEPT ![t] = "done"]
    /\ ret' = [ret EXCEPT ![t] = [out |-> "status",
                                  log |-> IF raised THEN <<"iso">> ELSE <<>>,
                                  failed |-> @.failed \/ failed]]

\* isolation.py 26-28: an already tracked subnet returns at once
add_network_check(t) ==
    /\ pc[t] = "iso_check"
    /\ IF args[t].subnet \in isoActive
       THEN RaceReturn(t, FALSE, FALSE)
       ELSE pc' = [pc EXCEPT ![t] = "iso_iter"] /\ UNCHANGED ret
    /\ UNCHANGED <<now, sys, frame, items, result, opsLeft, faults, net_ids,
                   lock, forward, postrouting, isoActive, resolved, instances,
                   args>>

\* isolation.py 33: the for statement makes its iterator over the set
add_network_iter(t) ==
    /\ pc[t] = "iso_iter"
    /\ \E ord \in Orders(isoActive) :
         args' = [args EXCEPT ![t].todo = ord, ![t].used = Cardinality(isoActive)]
    /\ pc' = [pc EXCEPT ![t] = "iso_next"]
    /\ UNCHANGED <<now, sys, frame, items, result, opsLeft, faults, net_ids,
                   lock, forward, postrouting, isoActive, resolved, instances,
                   ret>>

\* isolation.py 33: the iterator is asked for the next subnet; a set whose
\* size has changed since the iterator was made raises RuntimeError
add_network_next(t) ==
    /\ pc[t] = "iso_next"
    /\ IF Cardinality(isoActive) # args[t].used
       THEN RaceReturn(t, TRUE, FALSE)
       ELSE /\ pc' = [pc EXCEPT ![t] = IF args[t].todo = <<>> THEN "iso_add"
                                       ELSE "iso_block_out"]
            /\ UNCHANGED ret
    /\ UNCHANGED <<now, sys, frame, items, result, opsLeft, faults, net_ids,
                   lock, forward, postrouting, isoActive, resolved, instances,
                   args>>

\* isolation.py 34-35: one _block_traffic; a CommandError is caught in it,
\* any other exception of the command leaves add_network
add_network_block(t) ==
    /\ pc[t] \in {"iso_block_out", "iso_block_in"}
    /\ LET existing == Head(args[t].todo)
           cmds == IF pc[t] = "iso_block_out"
                   THEN BlockTraffic(args[t].subnet, existing)
                   ELSE BlockTraffic(existing, args[t].subnet)
       IN \E failAt \in FailPositions(cmds), raises \in BOOLEAN :
            /\ raises => failAt # 0
            /\ forward' = RunAll(forward, cmds, failAt)
            /\ Charge(failAt # 0)
            /\ IF raises
               THEN RaceReturn(t, TRUE, TRUE) /\ UNCHANGED args
               ELSE /\ pc' = [pc EXCEPT ![t] = IF pc[t] = "iso_block_out"
                                               THEN "iso_block_in" ELSE "iso_next"]
                    /\ args' = [args EXCEPT ![t].todo =
                                   IF pc[t] = "iso_block_in" THEN Tail(@) ELSE @]
                    /\ ret' = [ret EXCEPT ![t].failed = @ \/ failAt # 0]
    /\ UNCHANGED <<now, sys, frame, items, result, opsLeft, net_ids, lock,
                   postrouting, isoActive, resolved, instances>>

\* isolation.py 37-38
add_network_add(t) ==
    /\ pc[t] = "iso_add"
    /\ isoActive' = isoActive \cup {args[t].subnet}
    /\ RaceReturn(t, FALSE, FALSE)
    /\ UNCHANGED <<now, sys, frame, items, result, opsLeft, faults, net_ids,
                   lock, forward, postrouting, resolved, instances, args>>

\* an IsolationManager that tracks nothing, or one subnet of a network
\* started before; no request has arrived
RaceInit ==
    /\ ManagerInit(MaxRaceOps, MaxRaceFaults)
    /\ forward = <<HostRule>>
    /\ postrouting = <<>>
    /\ isoActive \in {{}, {ThirdSubnet}}
    /\ resolved = FALSE
    /\ instances = NoInstances
    /\ args = [t \in ApiThreads |-> NoCall]
    /\ ret = [t \in ApiThreads |-> NoReturn]

RaceStep(t) ==
    \/ \E n \in ConfigNets : race_call(t, n)
    \/ add_network_check(t)
    \/ add_network_iter(t)
    \/ add_network_next(t)
    \/ add_network_block(t)
    \/ add_network_add(t)

RaceNext == \E t \in ApiThreads : RaceStep(t)

RaceSpec == RaceInit /\ [][RaceNext]_vars

----------------------------------------------------------------------------
(* DhcpServer and HostapdManager: start and stop with their records *)

DhcpArgs == [interface : {"wlan0", "wlan1"}, subnet : {"192.168.10.0/24", "192.168.11.0/24"}]

HostapdArgs == [interface : {"wlan0", "wlan1"}, ssid : {"lab", "guest"}, channel : {1, 6}]

\* dhcp.py 149-156, 192-201: the record DhcpServer.start stores
DhcpRecord(net_id, a) ==
    [interface |-> a.interface, subnet |-> a.subnet,
     config_file |-> "/tmp/wilab-dnsmasq/dnsmasq-" \o net_id \o ".conf",
     pid_file |-> "/tmp/wilab-dnsmasq/pids/dnsmasq-" \o net_id \o ".pid"]

\* hostapd.py 153-160, 205-211: the record HostapdManager.start stores
HostapdRecord(net_id, a) ==
    [interface |-> a.interface, ssid |-> a.ssid, channel |-> a.channel,
     config_file |-> "/tmp/wilab-hostapd/hostapd-" \o net_id \o ".conf",
     pid_file |-> "/tmp/wilab-hostapd/pids/hostapd-" \o net_id \o ".pid"]

\* dhcp.py 159-187: the commands of DhcpServer.start; a failure of one of
\* the first three is logged in _configure_interface, of a later one raised
DhcpStartCommands ==
    <<"ip link set up", "ip addr flush", "ip addr add",
      "dnsmasq --version", "dnsmasq --test", "dnsmasq">>

\* hostapd.py 163-195: the commands of HostapdManager.start; the second to
\* the fourth prepare the interface, a failure among them skips the rest of
\* the preparation
HostapdStartCommands ==
    <<"which hostapd", "ip link set down", "iw set type managed",
      "ip addr flush", "hostapd -B">>

\* a start that never takes an already tracked net_id for started
NeverTracked(inst, net_id) == FALSE

\* dhcp.py 132 and hostapd.py 142: net_id in self._instances
Tracked(inst, net_id) == net_id \in DOMAIN inst

\* self._instances[net_id] = record
Store(inst, net_id, record) == (net_id :> record) @@ inst

\* del self._instances[net_id]
Delete(inst, net_id) ==
    IF DOMAIN inst \ {net_id} = {} THEN <<>>
    ELSE [m \in DOMAIN inst \ {net_id} |-> inst[m]]

\* one call of a subsystem: what it returned (the record of the instance,
\* error for the exception it raised, error "-" for the None of a stop), the
\* commands it issued, the files it wrote, whether it launched a daemon
DaemonCall(sub, op, net_id, a, returned, issued, wrote, launched) ==
    [sub |-> sub, op |-> op, net |-> net_id, args |-> a, returned |-> returned,
     issued |-> issued, wrote |-> wrote, launched |-> launched]

\* positions at which a start may fail: a command, or one past the last for
\* the check that follows the launch
StartFailPositions(cmds) == IF faults > 0 THEN 0..(Len(cmds) + 1) ELSE {0}

\* dhcp.py 110-208
dhcp_start ==
    /\ opsLeft > 0
    /\ opsLeft' = opsLeft - 1
    /\ \E net_id \in ConfigNets, a \in DhcpArgs :
         IF Tracked(instances.dhcp, net_id)
         THEN /\ ret' = Append(ret, DaemonCall("dhcp", "start", net_id, a,
                                      instances.dhcp[net_id], <<>>, {}, FALSE))
              /\ UNCHANGED <<instances, faults>>
         ELSE LET rec == DhcpRecord(net_id, a)
                  cmds == DhcpStartCommands
              IN \E failAt \in FailPositions(cmds) :
                   /\ Charge(failAt # 0)
                   /\ IF failAt \in 4..6
                      THEN /\ ret' = Append(ret, DaemonCall("dhcp", "start", net_id, a,
                                         [error |-> "DhcpServerError"], SubSeq(cmds, 1, failAt),
                                         {rec.config_file}, FALSE))
                           /\ UNCHANGED instances
                      ELSE /\ ret' = Append(ret, DaemonCall("dhcp", "start", net_id, a,
                                         rec, cmds, {rec.config_file}, TRUE))
                           /\ instances' = [instances EXCEPT
                                              !.dhcp = Store(@, net_id, rec)]
    /\ UNCHANGED <<now, sys, pc, frame, items, result, net_ids, lock,
                   forward, postrouting, isoActive, resolved, args>>

\* hostapd.py 112-216
hostapd_start ==
    /\ opsLeft > 0
    /\ opsLeft' = opsLeft - 1
    /\ \E net_id \in ConfigNets, a \in HostapdArgs :
         IF Tracked(instances.hostapd, net_id)
         THEN /\ ret' = Append(ret, DaemonCall("hostapd", "start", net_id, a,
                                      instances.hostapd[net_id], <<>>, {}, FALSE))
              /\ UNCHANGED <<instances, faults>>
         ELSE LET rec == HostapdRecord(net_id, a)
                  cmds == HostapdStartCommands
              IN \E failAt \in StartFailPositions(cmds) :
                   /\ Charge(failAt # 0)
                   /\ IF failAt \in {1, 5, 6}
                      THEN /\ ret' = Append(ret, DaemonCall("hostapd", "start", net_id, a,
                                         [error |-> "HostapdError"], SubSeq(cmds, 1, IF failAt = 6 THEN 5 ELSE failAt),
                                         {rec.config_file}, failAt = 6))
                           /\ UNCHANGED instances
                      ELSE /\ ret' = Append(ret, DaemonCall("hostapd", "start", net_id, a,
                                         rec,
                                         IF failAt \in 2..4
                                         THEN SubSeq(cmds, 1, failAt) \o <<cmds[5]>>
                                         ELSE cmds,
                                         {rec.config_file}, TRUE))
                           /\ instances' = [instances EXCEPT
                                              !.hostapd = Store(@, net_id, rec)]
    /\ UNCHANGED <<now, sys, pc, frame, items, result, net_ids, lock,
                   forward, postrouting, isoActive, resolved, args>>

\* what may go wrong in a stop: the PID file is missing, the kill raises
\* (a timeout), the removal of the config file raises
StopModes == IF faults > 0 THEN {"ok", "no_pid", "kill_fails", "remove_fails"}
             ELSE {"ok"}

\* dhcp.py 226-233 and hostapd.py 234-247: the commands that end the daemon;
\* hostapd gets SIGTERM, then SIGKILL unless the first kill raised
KillCommands(sub, mode) ==
    IF mode = "no_pid" THEN <<>>
    ELSE IF sub = "dhcp" \/ mode = "kill_fails" THEN <<"kill">>
    ELSE <<"kill", "kill -9">>

\* hostapd.py 259-268: the interface goes back to managed mode
ResetCommands ==
    <<"ip link set down", "iw set type managed", "ip addr flush", "ip link set up">>

\* a stop that drops the record whatever happened
RecordStaysNever(mode) == FALSE

\* dhcp.py 241-245 and hostapd.py 255-270: the exception of os.remove on the
\* config file leaves the try block before the del
RecordStays(mode) == mode = "remove_fails"

\* dhcp.py 210-249 and hostapd.py 218-274: stop of sub
daemon_stop(sub) ==
    /\ opsLeft > 0
    /\ opsLeft' = opsLeft - 1
    /\ \E net_id \in ConfigNets :
         IF ~Tracked(instances[sub], net_id)
         THEN /\ ret' = Append(ret, DaemonCall(sub, "stop", net_id, <<>>,
                                      [error |-> "-"], <<>>, {}, FALSE))
              /\ UNCHANGED <<instances, faults>>
         ELSE \E mode \in StopModes :
                /\ Charge(mode # "ok")
                /\ ret' = Append(ret, DaemonCall(sub, "stop", net_id, <<>>,
                                    [error |-> "-"],
                                    KillCommands(sub, mode)
                                      \o (IF sub = "hostapd" /\ ~RecordStays(mode)
                                          THEN ResetCommands ELSE <<>>),
                                    {}, FALSE))
                /\ instances' = IF RecordStays(mode) THEN instances
                                ELSE [instances EXCEPT ![sub] = Delete(@, net_id)]
    /\ UNCHANGED <<now, sys, pc, frame, items, result, net_ids, lock,
                   forward, postrouting, isoActive, resolved, args>>

\* a DhcpServer and a HostapdManager that track nothing
DaemonInit ==
    /\ ManagerInit(MaxDaemonOps, MaxDaemonFaults)
    /\ UnitInit

DaemonNext ==
    \/ dhcp_start
    \/ hostapd_start
    \/ daemon_stop("dhcp")
    \/ daemon_stop("hostapd")

DaemonSpec == DaemonInit /\ [][DaemonNext]_vars

----------------------------------------------------------------------------
(* NatManager *)

WifiInterfaces == {"wlan0", "wlan1"}

\* the device of the default route of the host
DefaultRouteDevice == "eth0"

\* nat.py 13-22: the configured upstream interface, and the policy of the
\* FORWARD chain of the host
NatConfigs == [upstream : {"auto", "eth1"}, policy : {"ACCEPT", "DROP"}]

\* nat.py 135-142
ProtectRule ==
    [kind |-> "ACCEPT-ESTABLISHED", src |-> "-", dst |-> "-",
     tag |-> "wilab-protect-existing"]

\* nat.py 162-168
MasqueradeRule(upstream, net_id) ==
    [kind |-> "MASQUERADE", src |-> "-", dst |-> upstream,
     tag |-> "wilab-nat-" \o net_id]

\* nat.py 183-190
ForwardInRule(wifi_interface, upstream, net_id) ==
    [kind |-> "ACCEPT", src |-> wifi_interface, dst |-> upstream,
     tag |-> "wilab-forward-" \o net_id]

\* nat.py 205-214
ForwardOutRule(wifi_interface, upstream, net_id) ==
    [kind |-> "ACCEPT-STATE", src |-> upstream, dst |-> wifi_interface,
     tag |-> "wilab-forward-" \o net_id]

\* the external commands of enable_nat and of disable_nat
EnableSteps == {"discover", "policy", "check_protect", "insert_protect", "sysctl",
                "check_masq", "add_masq", "check_in", "add_in", "check_out", "add_out"}
DisableSteps == {"discover", "del_masq", "del_in", "del_out"}

\* the command that is made to fail in one call, if any
NatFailChoices(steps) == IF faults > 0 THEN steps \cup {"none"} ELSE {"none"}

\* nat.py 58-66, 34-35: the call has to run `ip route show default`
NeedsDiscovery == args.upstream = "auto" /\ ~resolved

\* nat.py 58-67: the interface get_upstream_interface returns
UpstreamInterface ==
    IF args.upstream = "auto" THEN DefaultRouteDevice ELSE args.upstream

\* a _rule_exists that never finds the rule
RuleExistsNever(chain, rule, fails) == FALSE

\* nat.py 91-110: iptables -C; any failure of the command reads as "no rule"
RuleExists(chain, rule, fails) == ~fails /\ InChain(chain, rule)

\* nat.py 130-156: the FORWARD chain after the protection step
ProtectExisting(chain, policy, fail) ==
    IF /\ policy = "DROP"
       /\ fail # "policy"
       /\ ~RuleExists(chain, ProtectRule, fail = "check_protect")
       /\ fail # "insert_protect"
    THEN Iptables(chain, [flag |-> "-I", rule |-> ProtectRule])
    ELSE chain

\* nat.py 127-234: the two chains after enable_nat and whether it raised
EnableNatRules(fwd, post, policy, upstream, wifi_interface, net_id, fail) ==
    LET f0 == ProtectExisting(fwd, policy, fail)
        masq == MasqueradeRule(upstream, net_id)
        fin == ForwardInRule(wifi_interface, upstream, net_id)
        fout == ForwardOutRule(wifi_interface, upstream, net_id)
        addMasq == ~RuleExists(post, masq, fail = "check_masq")
        p1 == IF addMasq THEN Iptables(post, [flag |-> "-A", rule |-> masq]) ELSE post
        addIn == ~RuleExists(f0, fin, fail = "check_in")
        f1 == IF addIn THEN Iptables(f0, [flag |-> "-A", rule |-> fin]) ELSE f0
        addOut == ~RuleExists(f1, fout, fail = "check_out")
        f2 == IF addOut THEN Iptables(f1, [flag |-> "-A", rule |-> fout]) ELSE f1
    IN CASE fail = "sysctl" ->
              [forward |-> f0, postrouting |-> post, raised |-> TRUE]
         [] fail = "add_masq" /\ addMasq ->
              [forward |-> f0, postrouting |-> post, raised |-> TRUE]
         [] fail = "add_in" /\ addIn ->
              [forward |-> f0, postrouting |-> p1, raised |-> TRUE]
         [] fail = "add_out" /\ addOut ->
              [forward |-> f1, postrouting |-> p1, raised |-> TRUE]
         [] OTHER ->
              [forward |-> f2, postrouting |-> p1, raised |-> FALSE]

\* nat.py 252: for _ in range(10)
MaxDeleteAttempts == 10

\* a disable_nat that tries each delete once
DeleteOnce(chain, rule, n, fails) ==
    IF n = 0 \/ fails THEN chain
    ELSE Iptables(chain, [flag |-> "-D", rule |-> rule])

\* nat.py 252-263: iptables -D until it fails, at most n times; fails: the
\* first attempt fails
RECURSIVE DeleteLoop(_, _, _, _)
DeleteLoop(chain, rule, n, fails) ==
    IF n = 0 \/ fails \/ IptablesFails(chain, [flag |-> "-D", rule |-> rule])
    THEN chain
    ELSE DeleteLoop(Iptables(chain, [flag |-> "-D", rule |-> rule]), rule, n - 1, FALSE)

\* the occurrences of a rule in a chain
Count(chain, rule) == Len(SelectSeq(chain, LAMBDA r : r = rule))

\* the rules of the two chains that are tagged for net_id
Tagged(fwd, post, net_id) ==
    Len(SelectSeq(fwd, LAMBDA r : r.tag = "wilab-forward-" \o net_id))
      + Len(SelectSeq(post, LAMBDA r : r.tag = "wilab-nat-" \o net_id))

\* one call: failed: a command of it was made to fail, raised: the call
\* ended with an exception, added: the tagged rules it added (negative: the
\* deletions of a disable_nat)
NatRecord(op, wifi_interface, net_id, failed, raised, added) ==
    [op |-> op, wifi |-> wifi_interface, net |-> net_id, failed |-> failed,
     raised |-> raised, added |-> added]

\* nat.py 112-234
enable_nat ==
    /\ opsLeft > 0
    /\ opsLeft' = opsLeft - 1
    /\ \E wifi_interface \in WifiInterfaces, net_id \in ConfigNets,
          fail \in NatFailChoices(EnableSteps) :
         /\ Charge(fail # "none")
         /\ IF NeedsDiscovery /\ fail = "discover"
            THEN /\ ret' = Append(ret, NatRecord("enable_nat", wifi_interface, net_id,
                                                 TRUE, TRUE, 0))
                 /\ UNCHANGED <<forward, postrouting, resolved>>
            ELSE LET r == EnableNatRules(forward, postrouting, args.policy,
                                    UpstreamInterface, wifi_interface, net_id, fail)
                 IN /\ resolved' = (resolved \/ args.upstream = "auto")
                    /\ forward' = r.forward
                    /\ postrouting' = r.postrouting
                    /\ ret' = Append(ret,
                          NatRecord("enable_nat", wifi_interface, net_id,
                                    fail # "none", r.raised,
                                    Tagged(r.forward, r.postrouting, net_id)
                                      - Tagged(forward, postrouting, net_id)))
    /\ UNCHANGED <<now, sys, pc, frame, items, result, net_ids, lock,
                   isoActive, instances, args>>

\* nat.py 236-298
disable_nat ==
    /\ opsLeft > 0
    /\ opsLeft' = opsLeft - 1
    /\ \E wifi_interface \in WifiInterfaces, net_id \in ConfigNets,
          fail \in NatFailChoices(DisableSteps) :
         /\ Charge(fail # "none")
         /\ IF NeedsDiscovery /\ fail = "discover"
            THEN /\ ret' = Append(ret, NatRecord("disable_nat", wifi_interface, net_id,
                                                 TRUE, TRUE, 0))
                 /\ UNCHANGED <<forward, postrouting, resolved>>
            ELSE LET upstream == UpstreamInterface
                     f1 == DeleteLoop(forward,
                                      ForwardInRule(wifi_interface, upstream, net_id),
                                      MaxDeleteAttempts, fail = "del_in")
                 IN /\ resolved' = (resolved \/ args.upstream = "auto")
                    /\ postrouting' = DeleteLoop(postrouting,
                                                 MasqueradeRule(upstream, net_id),
                                                 MaxDeleteAttempts, fail = "del_masq")
                    /\ forward' = DeleteLoop(f1,
                                             ForwardOutRule(wifi_interface, upstream, net_id),
                                             MaxDeleteAttempts, fail = "del_out")
                    /\ ret' = Append(ret,
                          NatRecord("disable_nat", wifi_interface, net_id,
                                    fail # "none", FALSE,
                                    Tagged(forward', postrouting', net_id)
                                      - Tagged(forward, postrouting, net_id)))
    /\ UNCHANGED <<now, sys, pc, frame, items, result, net_ids, lock,
                   isoActive, instances, args>>

\* a NatManager that has resolved no upstream yet, on a host whose FORWARD
\* chain has a rule
NatInit ==
    /\ ManagerInit(MaxNatOps, MaxNatFaults)
    /\ forward = <<HostRule>>
    /\ postrouting = <<>>
    /\ isoActive = {}
    /\ resolved = FALSE
    /\ instances = NoInstances
    /\ args \in NatConfigs
    /\ ret = <<>>

NatNext ==
    \/ enable_nat
    \/ disable_nat

NatSpec == NatInit /\ [][NatNext]_vars

\* n copies of a rule
Copies(rule, n) == [i \in 1..n |-> rule]

\* the chains of a host on which earlier runs of the service have left
\* the three rules of net_id "a" on wlan0, each the same number of times
DupInit ==
    /\ ManagerInit(MaxDupOps, MaxDupFaults)
    /\ args \in NatConfigs
    /\ \E n \in 0..MaxDuplicates :
         /\ forward = <<HostRule>>
                        \o Copies(ForwardInRule("wlan0", UpstreamInterface, "a"), n)
                        \o Copies(ForwardOutRule("wlan0", UpstreamInterface, "a"), n)
         /\ postrouting = Copies(MasqueradeRule(UpstreamInterface, "a"), n)
    /\ isoActive = {}
    /\ resolved = FALSE
    /\ instances = NoInstances
    /\ ret = <<>>

DupSpec == DupInit /\ [][NatNext]_vars

----------------------------------------------------------------------------
(* Teardown of one network beside the others *)

\* the interface of each configured network
NetInterface == [a |-> "wlan0", b |-> "wlan1"]

\* the FORWARD chain after enable_nat for the networks of nets and
\* add_network of the three WiFi subnets, in that order
TeardownForward(nets, ord) ==
    LET nat(n) == IF n \in nets
                  THEN <<ForwardInRule(NetInterface[n], UpstreamInterface, n),
                         ForwardOutRule(NetInterface[n], UpstreamInterface, n)>>
                  ELSE <<>>
    IN RunAll(<<HostRule>> \o nat("a") \o nat("b"),
              AddCommands(ord[2], SubSeq(ord, 1, 1), 1)
                \o AddCommands(ord[3], SubSeq(ord, 1, 2), 1), 0)

\* the POSTROUTING chain after enable_nat for the networks of nets
TeardownPostrouting(nets) ==
    LET nat(n) == IF n \in nets
                  THEN <<MasqueradeRule(UpstreamInterface, n)>> ELSE <<>>
    IN nat("a") \o nat("b")

\* a host on which start_network has set up any of the configured networks,
\* with or without internet access, and the subsystems by themselves with
\* NAT rules of some networks and the isolation rules of three subnets
TeardownInit ==
    /\ now = 0
    /\ active \in [ConfigNets ->
                     {NoStatus} \cup {[on |-> TRUE, ie |-> ie, exp |-> ReqTimeout] :
                                         ie \in BOOLEAN}]
    /\ dhcpInst = [n \in ConfigNets |-> IF active[n].on THEN "live" ELSE "none"]
    /\ apInst = [n \in ConfigNets |-> IF active[n].on THEN "live" ELSE "none"]
    /\ natRules = [n \in ConfigNets |-> IF active[n].ie THEN RuleKinds ELSE {}]
    /\ isoSubnets = {n \in ConfigNets : active[n].on}
    /\ pc = [t \in Threads |-> IF t = LoopThread THEN "sleep" ELSE "idle"]
    /\ frame = [t \in Threads |-> NoFrame]
    /\ items = {}
    /\ result = NoResults
    /\ opsLeft = MaxTeardownOps
    /\ faults = MaxTeardownFaults
    /\ net_ids = NoSnapshot
    /\ lock = "free"
    /\ args \in NatConfigs
    /\ \E nets \in SUBSET ConfigNets :
         /\ forward = TeardownForward(nets, <<<<192, 168, 10>>, <<192, 168, 11>>,
                                               <<192, 168, 12>>>>)
         /\ postrouting = TeardownPostrouting(nets)
    /\ isoActive = WifiSubnets
    /\ resolved = FALSE
    /\ instances = NoInstances
    /\ ret = <<>>

\* sequential histories: a call of a subsystem by itself is made between
\* two stop_network, not inside one
TeardownNext ==
    \/ \E n \in NetIds : stop_network_call("t1", n)
    \/ StopStep("t1")
    \/ pc["t1"] = "idle" /\ disable_nat
    \/ pc["t1"] = "idle" /\ remove_network

TeardownSpec == TeardownInit /\ [][TeardownNext]_vars

----------------------------------------------------------------------------
(* Properties *)

AllIdle == \A t \in Threads : pc[t] \in {"idle", "sleep"}

\* positions between the first external step of an operation and its end
MidStart == {"start_ap", "start_rb_dhcp", "start_gw", "start_rb_ap",
             "start_record", "start_nat", "start_iso"}
MidStop == {"stop_natchk", "stop_natchk2", "stop_nat", "stop_iso",
            "stop_dhcp", "stop_del"}
InSteps(t) == pc[t] \in MidStart \cup MidStop

\* C1: two operations on the same net_id are never both between their first
\* external step and their end
C1_NoInterleaving ==
    \A t, u \in Threads :
        (t # u /\ InSteps(t) /\ InSteps(u)) => frame[t].net # frame[u].net

\* C2: with no operation in progress, a net_id is in the active map iff the
\* DHCP subsystem tracks an instance for it
C2_ActiveIffDhcp ==
    AllIdle => \A n \in ConfigNets : active[n].on <=> dhcpInst[n] # "none"

\* thread t has just been through a call of start_network(n)
StartCalled(t, n) ==
    /\ pc[t] = "idle"
    /\ opsLeft' = opsLeft - 1
    /\ \/ result'[t].op = "start" /\ result'[t].net = n
       \/ frame'[t].op = "start" /\ frame'[t].net = n

\* C3: in sequential histories start_network on an active net_id raises the
\* conflict, on an unknown net_id raises not-found, and both leave the active
\* map and every subsystem as they were
C3_ConflictAndNotFound ==
    [][\A t \in ApiThreads, n \in NetIds :
         StartCalled(t, n) =>
           /\ n \notin ConfigNets =>
                (result'[t].out = "not_found" /\ pc'[t] = "idle" /\ UNCHANGED sys)
           /\ InActive(n) =>
                (result'[t].out = "conflict" /\ pc'[t] = "idle" /\ UNCHANGED sys)]_vars

C3_Witness ==
    \E t \in ApiThreads :
        result[t].op = "start" /\ result[t].out = "conflict" /\ InActive(result[t].net)

\* C4: two overlapping start_network calls for one net_id do not both return
\* a NetworkStatus
C4_OneStartWins ==
    LET r1 == result["t1"]
        r2 == result["t2"]
    IN (r1.op = "start" /\ r2.op = "start" /\ r1.net = r2.net)
         => ~(r1.out = "status" /\ r2.out = "status")

\* C5: when hostapd fails to start after DHCP started, start_network raises
\* and leaves no DHCP record and no entry in the active map
C5_ApFailureRollsBackDhcp ==
    \A t \in ApiThreads :
        (result[t].op = "start" /\ result[t].out = "ap_error")
          => (dhcpInst[result[t].net] = "none" /\ ~active[result[t].net].on)

\* C6: when the gateway address cannot be assigned, start_network raises and
\* leaves no AP record, no DHCP record and no entry in the active map
C6_GatewayFailureRollsBack ==
    \A t \in ApiThreads :
        (result[t].op = "start" /\ result[t].out = "gw_error")
          => /\ apInst[result[t].net] = "none"
             /\ dhcpInst[result[t].net] = "none"
             /\ ~active[result[t].net].on

\* C7: after get_status has expired a network, the net_id is not in the
\* active map, has no DHCP and no AP record, its subnet is not isolated and
\* no NAT rule tagged for it is left
C7_LazyExpiryCleansUp ==
    \A t \in ApiThreads :
        (result[t].op = "status" /\ result[t].out = "inactive" /\ result[t].log # <<>>)
          => LET n == result[t].net
             IN /\ ~active[n].on
                /\ dhcpInst[n] = "none"
                /\ apInst[n] = "none"
                /\ n \notin isoSubnets
                /\ natRules[n] = {}

\* no API request is being served
ApiIdle == \A t \in ApiThreads : pc[t] = "idle"

\* C8: under weak fairness of the expiry thread, an active network whose
\* expiry instant has passed is eventually out of the active map unless an
\* API request comes in between, also after a stop sequence of the loop has
\* raised
C8_ExpiredEventuallyRemoved ==
    \A n \in ConfigNets :
        (active[n].on /\ active[n].exp < now /\ ApiIdle)
            ~> (~active[n].on \/ ~ApiIdle)

C8_Witness ==
    /\ result[LoopThread].op = "loop"
    /\ result[LoopThread].out = "returned"
    /\ result[LoopThread].log[Len(result[LoopThread].log)] = "del"
    /\ ~active[result[LoopThread].net].on

\* C9: stop_network never raises to its caller
C9_StopNeverRaises ==
    \A t \in ApiThreads : result[t].op = "stop" => result[t].out = "returned"

\* the sub-steps of stop_network in the order of the code
StopOrder == <<"ap", "nat", "iso", "dhcp", "del">>

\* the sub-steps due for a stop that read the internet flag ie, found the
\* subnet or not, and found the entry still in the map at the end or not
DueSteps(ie, sub, del) ==
    LET due(s) == \/ s \in {"ap", "dhcp"}
                  \/ s = "nat" /\ ie
                  \/ s = "iso" /\ sub
                  \/ s = "del" /\ del
    IN SelectSeq(StopOrder, due)

\* the stop sequences that returned: stop_network itself, the one of
\* get_status and the one of the expiry loop
StopReturned(r) ==
    \/ r.op \in {"stop", "loop"} /\ r.out = "returned"
    \/ r.op = "status" /\ r.out = "inactive" /\ r.log # <<>>

C11_StartThenStopLeavesNothing ==
    \A t \in ApiThreads :
        LET r == result[t]
        IN (r.op = "stop" /\ r.out = "returned" /\ Len(r.log) > 0
              /\ r.log[Len(r.log)] = "del")
             => /\ ~active[r.net].on
                /\ dhcpInst[r.net] = "none"
                /\ apInst[r.net] = "none"
                /\ r.net \notin isoSubnets

\* C12: with no operation in progress, the subnets the IsolationManager
\* tracks are those of the networks in the active map
C12_IsolationMirrorsActive ==
    AllIdle => isoSubnets = {n \in ConfigNets : active[n].on}

C14_LateFailuresNotFatal ==
    \A t \in ApiThreads :
        LET r == result[t]
        IN (r.op = "start" /\ r.log # <<>>)
             => /\ r.out = "status"
                /\ active[r.net].on
                /\ dhcpInst[r.net] # "none"
                /\ apInst[r.net] # "none"

C14_Witness ==
    \E t \in ApiThreads :
        /\ result[t].op = "start" /\ result[t].out = "status"
        /\ result[t].log = <<"tx", "nat">>
        /\ active[result[t].net].on

\* C15: for a /24 base network the entry at 0-based index i gets the base
\* network with the third octet raised by i, as a /24, on every call, two
\* entries never get the same subnet, and the call raises the overflow
\* error exactly when that octet would exceed 255
C15_SubnetAllocation ==
    (args \in SubnetArgs /\ args.base.prefix = 24) =>
        /\ \A k \in 1..Len(ret) :
             \A i \in 1..Len(args.networks) :
                args.networks[i] = args.net_id =>
                  LET third == args.base.addr[3] + (i - 1)
                  IN IF third > 255 THEN ret[k] = [err |-> "overflow"]
                     ELSE ret[k] = [err |-> "-", prefix |-> 24,
                                    addr |-> <<args.base.addr[1], args.base.addr[2],
                                               third, 0>>]
        /\ \A k, l \in 1..Len(ret) : ret[k] = ret[l]
        /\ \A i, j \in 1..Len(args.networks) :
             LET si == GetSubnet(args.base, args.networks, args.networks[i])
                 sj == GetSubnet(args.base, args.networks, args.networks[j])
             IN (i # j /\ si.err = "-" /\ sj.err = "-") => si # sj

C15_Witness ==
    /\ args \in SubnetArgs
    /\ args.base.prefix = 24
    /\ args.base.addr[3] = 120
    /\ Len(args.networks) = 3
    /\ args.networks[3] = args.net_id
    /\ Len(ret) = 2
    /\ ret[2].err = "-"
    /\ ret[2].addr[3] = 122

\* C16: the expiry instant is now + the request's timeout clamped to
\* [min_timeout, max_timeout] whenever the request supplies a timeout, 0 and
\* negative values included, and now + the clamped default_timeout only
\* when it supplies none
C16_ExpiryFromRequest ==
    (args \in ExpiryArgs /\ ret # <<>>) =>
        LET t == IF args.timeout.given THEN args.timeout.value ELSE default_timeout
            clamped == IF t < min_timeout THEN min_timeout
                       ELSE IF t > max_timeout THEN max_timeout ELSE t
        IN ret[1] = args.now + clamped

\* the calls so far are add_network of distinct subnets, none with a failure
OnlyCleanAdds ==
    /\ \A k \in 1..Len(ret) : ret[k].op = "add_network" /\ ~ret[k].failed
    /\ \A k, l \in 1..Len(ret) : ret[k].subnet = ret[l].subnet => k = l

IsolationRules == SelectSeq(forward, LAMBDA r : r.tag = "wilab-isolation")

\* C17 as stated: from an empty manager, the k-th add_network of distinct
\* subnets issues 2(k-1) appends, and n adds leave n(n-1) DROP rules
C17_RuleCountAnySubnets ==
    OnlyCleanAdds =>
        /\ \A k \in 1..Len(ret) : Len(ret[k].issued) = 2 * (k - 1)
        /\ Len(IsolationRules) = Len(ret) * (Len(ret) - 1)

\* C17, amended: the same for subnets inside 192.168.0.0/16
C17_RuleCount ==
    (OnlyCleanAdds /\ \A k \in 1..Len(ret) : IsWifiSubnet(ret[k].subnet)) =>
        /\ \A k \in 1..Len(ret) :
             /\ Len(ret[k].issued) = 2 * (k - 1)
             /\ \A i \in 1..Len(ret[k].issued) : ret[k].issued[i].flag = "-A"
        /\ Len(IsolationRules) = Len(ret) * (Len(ret) - 1)

C17_Witness ==
    /\ OnlyCleanAdds
    /\ Len(ret) = 3
    /\ \A k \in 1..Len(ret) : IsWifiSubnet(ret[k].subnet)
    /\ Len(ret[3].issued) = 4
    /\ Len(IsolationRules) = 6

\* the rules of the service in the FORWARD chain have both endpoints in
\* 192.168.0.0/16, and so has every command an add_network has issued
OnlyWifiPairs ==
    /\ \A i \in 1..Len(forward) :
         forward[i].tag = "wilab-isolation"
           => IsWifiSubnet(forward[i].src) /\ IsWifiSubnet(forward[i].dst)
    /\ \A k \in 1..Len(ret) : \A c \in 1..Len(ret[k].issued) :
         ret[k].op = "add_network"
           => /\ IsWifiSubnet(ret[k].issued[c].rule.src)
              /\ IsWifiSubnet(ret[k].issued[c].rule.dst)

\* a step is a call of add_network
AddNetworkStep ==
    /\ Len(ret') = Len(ret) + 1
    /\ ret'[Len(ret')].op = "add_network"

\* C18: every DROP rule the IsolationManager installs has both endpoints
\* in 192.168.0.0/16, a pair with an endpoint outside it issues no command,
\* and add_network only appends to the FORWARD chain: the rules that were
\* there keep their positions, in front of the new ones
C18_WifiPairsAppendedOnly ==
    /\ []OnlyWifiPairs
    /\ [][AddNetworkStep =>
            /\ Len(forward') >= Len(forward)
            /\ SubSeq(forward', 1, Len(forward)) = forward
            /\ \A c \in 1..Len(ret'[Len(ret')].issued) :
                 ret'[Len(ret')].issued[c].flag = "-A"]_vars

C18_Witness ==
    /\ OnlyCleanAdds
    /\ Len(ret) = 3
    /\ \E k \in 1..3 : ~IsWifiSubnet(ret[k].subnet)
    /\ isoActive = {ret[k].subnet : k \in 1..3}
    /\ Len(IsolationRules) = 2
    /\ forward[1] = HostRule

\* no command of any call so far was made to fail
NoNatFailure == \A k \in 1..Len(ret) : ~ret[k].failed

\* the last two calls are enable_nat with the same interface and net_id
EnabledTwice ==
    /\ Len(ret) >= 2
    /\ ret[Len(ret)].op = "enable_nat"
    /\ ret[Len(ret) - 1].op = "enable_nat"
    /\ ret[Len(ret)].wifi = ret[Len(ret) - 1].wifi
    /\ ret[Len(ret)].net = ret[Len(ret) - 1].net

\* C19: after two enable_nat calls in a row for the same interface and
\* net_id, with no command failure, the POSTROUTING chain has exactly one
\* masquerade rule and the FORWARD chain exactly one of each of the two
\* forwarding rules of that net_id, and the second call has added no rule
C19_EnableNatIdempotent ==
    (args \in NatConfigs /\ NoNatFailure /\ EnabledTwice) =>
        LET last == ret[Len(ret)]
        IN /\ Count(postrouting, MasqueradeRule(UpstreamInterface, last.net)) = 1
           /\ Count(forward, ForwardInRule(last.wifi, UpstreamInterface, last.net)) = 1
           /\ Count(forward, ForwardOutRule(last.wifi, UpstreamInterface, last.net)) = 1
           /\ last.added = 0

C19_Witness ==
    /\ args \in NatConfigs
    /\ args.policy = "DROP"
    /\ NoNatFailure
    /\ EnabledTwice
    /\ Len(ret) = 2
    /\ ret[1].added = 3
    /\ ret[2].added = 0
    /\ Count(forward, ProtectRule) = 1
    /\ Tagged(forward, postrouting, ret[2].net) = 3

\* C20: disable_nat never ends with an exception, whether the rules exist
\* or not and whichever command it relies on fails
C20_DisableNatNeverRaises ==
    \A k \in 1..Len(ret) : ret[k].op = "disable_nat" => ~ret[k].raised

\* C21: enable_internet on an active network whose flag is set calls no NAT
\* operation and leaves the flag set; with the flag clear it calls enable_nat
\* once and sets the flag when enable_nat returns (the flag stays clear when
\* enable_nat raises); disable_internet calls disable_nat only with the flag
\* set, and always leaves the flag clear
C21_InternetToggle ==
    LET r == result["t1"]
    IN /\ (r.op = "enable_internet" /\ r.out \in {"status", "nat_error"}) =>
             /\ r.ie => (r.log = <<>> /\ r.out = "status")
             /\ ~r.ie => r.log = <<"nat">>
             /\ r.out = "status" => (active[r.net].on /\ active[r.net].ie)
             /\ r.out = "nat_error" => (active[r.net].on /\ ~active[r.net].ie)
       /\ (r.op = "disable_internet" /\ r.out = "status") =>
             /\ r.ie => r.log = <<"nat">>
             /\ ~r.ie => r.log = <<>>
             /\ active[r.net].on /\ ~active[r.net].ie

C21_Witness ==
    LET r == result["t1"]
    IN /\ r.op = "enable_internet"
       /\ r.out = "status"
       /\ ~r.ie
       /\ r.log = <<"nat">>
       /\ active[r.net].ie
       /\ natRules[r.net] = RuleKinds
       /\ opsLeft = 0

\* the levels of every call are non-decreasing and level 1 is at least 1 dBm
LevelsOrdered ==
    \A k \in 1..Len(ret) :
        /\ ret[k][1] <= ret[k][2]
        /\ ret[k][2] <= ret[k][3]
        /\ ret[k][3] <= ret[k][4]
        /\ ret[k][1] >= 10

ExternalSteps == {"start_dhcp", "start_ap", "start_gw", "start_rb_ap",
                  "start_rb_dhcp", "start_record", "start_nat", "start_iso",
                  "stop_ap", "stop_nat", "stop_iso", "stop_dhcp"}

\* positions inside a `with self._lock` block
LockedSteps == {"stop_locked", "loop_locked"}

\* the next step of a thread that is inside an operation
ThreadStep(t) == IF t = LoopThread THEN LockLoop ELSE LockStep(t)

\* thread t is at the `with self._lock` of stop_network and another thread
\* holds the lock
WaitsForLock(t) == pc[t] = "stop_lock" /\ lock # "free"

\* C23: the lock is never held by a thread whose next step is an external
\* command: its holder is inside a with block and can take its next step,
\* and while a thread is suspended at an external step of an operation on
\* one net_id, every other thread that is inside an operation and does not
\* wait for the lock can take its next step
C23_NoLockAcrossCommands ==
    /\ lock # "free" => (pc[lock] \in LockedSteps /\ ENABLED ThreadStep(lock))
    /\ \A u \in Threads :
         pc[u] \in ExternalSteps =>
           \A t \in Threads \ {u} :
              (pc[t] \notin {"idle", "sleep"} /\ ~WaitsForLock(t))
                => ENABLED ThreadStep(t)

C23_Witness ==
    /\ pc["t1"] = "start_ap"
    /\ frame["t1"].net = "b"
    /\ result["t2"].op = "start"
    /\ result["t2"].net = "a"
    /\ result["t2"].out = "status"
    /\ active["a"].on
    /\ lock = "free"

\* C28: every step that changes the active map is taken while the lock is
\* held
C28_MapAccessUnderLock == [][active' # active => lock # "free"]_vars

\* C24: when a stop sequence of the expiry loop or of get_status begins, the
\* expiry instant of the network that is in the active map at that moment
\* has passed
C24_ExpireOnlyIfDue ==
    \A t \in Threads :
        (frame[t].op \in {"loop", "status"} /\ pc[t] = "stop_sub"
           /\ InActive(frame[t].net))
          => Expired(active[frame[t].net], now)


\* the calls so far had no failing command, and the subnets they named
\* lie in 192.168.0.0/16
CleanWifiCalls ==
    \A k \in 1..Len(ret) :
        /\ ~ret[k].failed
        /\ ret[k].op \in {"add_network", "remove_network"} => IsWifiSubnet(ret[k].subnet)

\* the DROP rules of the service are one rule for each ordered pair of
\* distinct tracked subnets
PairwiseMatrix ==
    /\ \A s, d \in isoActive :
         s # d => Count(forward, DropRule(s, d)) = 1
    /\ Len(IsolationRules) = Cardinality(isoActive) * (Cardinality(isoActive) - 1)

\* a step is a call of the IsolationManager that named op
IsoCall(op) ==
    /\ Len(ret') = Len(ret) + 1
    /\ ret'[Len(ret')].op = op

\* C26: in a sequential series of add_network, remove_network and flush_all
\* with no failing command and subnets in 192.168.0.0/16, the installed
\* DROP rules are exactly one per ordered pair of distinct tracked subnets;
\* an add of a tracked subnet and a remove of an untracked one issue no
\* command, and flush_all leaves no rule and an empty set
C26_PairwiseMatrix ==
    /\ [](CleanWifiCalls => PairwiseMatrix)
    /\ [][(CleanWifiCalls' /\ IsoCall("add_network")
             /\ ret'[Len(ret')].subnet \in isoActive)
            => (ret'[Len(ret')].issued = <<>> /\ forward' = forward
                  /\ isoActive' = isoActive)]_vars
    /\ [][(CleanWifiCalls' /\ IsoCall("remove_network")
             /\ ret'[Len(ret')].subnet \notin isoActive)
            => (ret'[Len(ret')].issued = <<>> /\ forward' = forward
                  /\ isoActive' = isoActive)]_vars
    /\ [][(CleanWifiCalls' /\ IsoCall("flush_all"))
            => (IsolationRules' = <<>> /\ isoActive' = {})]_vars

C26_Witness ==
    /\ CleanWifiCalls
    /\ Len(ret) = 5
    /\ ret[1].op = "add_network" /\ ret[2].op = "add_network"
    /\ ret[3].op = "remove_network" /\ Len(ret[3].issued) = 2
    /\ ret[4].op = "add_network" /\ Len(ret[4].issued) = 2
    /\ ret[5].op = "flush_all" /\ Len(ret[5].issued) = 2
    /\ isoActive = {}
    /\ IsolationRules = <<>>

\* C27: an add_network or remove_network in which an iptables command
\* fails does not raise; the add still tracks the subnet and the remove
\* still drops it from the tracked set
C27_FailuresNotRaised ==
    /\ [][(IsoCall("add_network") /\ ret'[Len(ret')].failed)
            => (~ret'[Len(ret')].raised
                  /\ ret'[Len(ret')].subnet \in isoActive')]_vars
    /\ [][(IsoCall("remove_network") /\ ret'[Len(ret')].failed)
            => (~ret'[Len(ret')].raised
                  /\ ret'[Len(ret')].subnet \notin isoActive')]_vars

\* both requests of the race have returned their status and no command of
\* either was made to fail
BothStarted ==
    /\ \A t \in ApiThreads : pc[t] = "done" /\ ret[t].out = "status" /\ ~ret[t].failed
    /\ args["t1"].subnet # args["t2"].subnet

\* C25: when start_network ran concurrently for two different net_ids, both
\* returned success and no iptables command failed, both DROP rules between
\* their two subnets are installed
C25_BothRulesInstalled ==
    BothStarted =>
        /\ InChain(forward, DropRule(args["t1"].subnet, args["t2"].subnet))
        /\ InChain(forward, DropRule(args["t2"].subnet, args["t1"].subnet))

\* thread t returns from the stop sequence its start_network ran because the
\* AP daemon was found running for a net_id that was not in the active map
CleanupReturns(t) ==
    /\ frame[t].op = "start"
    /\ pc[t] = "stop_del"
    /\ pc'[t] = "start_dhcp"

\* C29: the stop sequence of such a start_network is complete before the
\* provisioning begins: when it returns, net_id is not in the active map and
\* neither the AP nor the DHCP subsystem tracks it, so that the start
\* provisions fresh instances
C29_CleanupBeforeProvisioning ==
    [][\A t \in ApiThreads :
          CleanupReturns(t) =>
              /\ ~InActive(frame[t].net)'
              /\ apInst'[frame[t].net] = "none"
              /\ dhcpInst'[frame[t].net] = "none"]_vars

\* a step is a start of sub for a net_id that sub already tracks
StartOfTracked(sub) ==
    /\ Len(ret') = Len(ret) + 1
    /\ ret'[Len(ret')].sub = sub
    /\ ret'[Len(ret')].op = "start"
    /\ ret'[Len(ret')].net \in DOMAIN instances[sub]

DaemonStep(sub, op) ==
    /\ Len(ret') = Len(ret) + 1
    /\ ret'[Len(ret')].sub = sub
    /\ ret'[Len(ret')].op = op

\* C31: a DhcpServer.start in which a step fails raises DhcpServerError and
\* persists no record for net_id; a record is stored only by a call whose
\* daemon launch succeeded
C31_DhcpStartFailureRaises ==
    /\ [][(DaemonStep("dhcp", "start") /\ faults' < faults)
            => (ret'[Len(ret')].returned = [error |-> "DhcpServerError"]
                  /\ instances' = instances)]_vars
    /\ [][(DaemonStep("dhcp", "start") /\ instances' # instances)
            => (ret'[Len(ret')].launched
                  /\ ret'[Len(ret')].issued[Len(ret'[Len(ret')].issued)] = "dnsmasq")]_vars

\* C32: DhcpServer.stop never raises, does nothing for an untracked net_id,
\* and leaves a tracked net_id untracked whichever of its steps failed
C32_DhcpStopDropsRecord ==
    [][DaemonStep("dhcp", "stop") =>
          LET call == ret'[Len(ret')]
          IN /\ call.returned = [error |-> "-"]
             /\ call.net \notin DOMAIN instances.dhcp =>
                  (call.issued = <<>> /\ instances' = instances)
             /\ call.net \notin DOMAIN instances'.dhcp]_vars

\* the commands of cmds from the first one equal to c on
RECURSIVE From(_, _)
From(cmds, c) ==
    IF cmds = <<>> \/ Head(cmds) = c THEN cmds ELSE From(Tail(cmds), c)

\* C33: HostapdManager.stop of a tracked net_id sends SIGTERM before the
\* forced kill, resets the interface (link down, managed mode, addresses
\* flushed, link up) and drops the record before it returns, whatever went
\* wrong before
C33_HostapdStopResets ==
    [][(DaemonStep("hostapd", "stop") /\ ret'[Len(ret')].net \in DOMAIN instances.hostapd) =>
          LET call == ret'[Len(ret')]
          IN /\ \A i \in 1..Len(call.issued) :
                  call.issued[i] = "kill -9" => (i > 1 /\ call.issued[i - 1] = "kill")
             /\ From(call.issued, "ip link set down") = ResetCommands
             /\ call.net \notin DOMAIN instances'.hostapd]_vars

\* the three rules of net_id on wifi_interface, each with its chain
NatRuleCounts(fwd, post, wifi_interface, net_id) ==
    <<Count(post, MasqueradeRule(UpstreamInterface, net_id)),
      Count(fwd, ForwardInRule(wifi_interface, UpstreamInterface, net_id)),
      Count(fwd, ForwardOutRule(wifi_interface, UpstreamInterface, net_id))>>

\* a step is a disable_nat that got as far as its delete loops
DisableNatStep ==
    /\ Len(ret') = Len(ret) + 1
    /\ ret'[Len(ret')].op = "disable_nat"
    /\ ~ret'[Len(ret')].raised

EnableNatStep ==
    /\ Len(ret') = Len(ret) + 1
    /\ ret'[Len(ret')].op = "enable_nat"

\* C35: whatever enable_nat calls were made, the FORWARD chain holds at most
\* one wilab-protect-existing rule; a call inserts it only when the policy
\* of the chain is DROP and the chain does not hold it yet, at position 1,
\* in front of the rules that were there and of the tagged rules the call
\* appends
C35_OneProtectRule ==
    /\ [](Count(forward, ProtectRule) <= 1)
    /\ [][(EnableNatStep /\ Count(forward', ProtectRule) > Count(forward, ProtectRule)) =>
            /\ args.policy = "DROP"
            /\ ~InChain(forward, ProtectRule)
            /\ forward'[1] = ProtectRule
            /\ SubSeq(forward', 2, Len(forward) + 1) = forward]_vars

InternetOps == {"enable_internet", "disable_internet"}

\* the request thread t1 calls enable_internet or disable_internet for a
\* net_id that is not in the active map
InternetCallOfInactive ==
    /\ pc["t1"] = "idle"
    /\ opsLeft' = opsLeft - 1
    /\ LET called == IF pc'["t1"] = "idle" THEN result'["t1"] ELSE frame'["t1"]
       IN called.op \in InternetOps /\ ~InActive(called.net)

\* the enable_nat that enable_internet calls on thread t1 fails
EnableNatFailed ==
    /\ pc["t1"] = "inet_nat"
    /\ frame["t1"].op = "enable_internet"
    /\ faults' < faults

\* C36: an enable_internet whose enable_nat raised has raised too and the
\* stored flag of the network is clear; enable_internet or disable_internet
\* for a net_id that is unknown or not in the active map raises in the same
\* step, with no NAT operation and no change of the manager's state
C36_InternetErrors ==
    /\ [][EnableNatFailed =>
            /\ pc'["t1"] = "idle"
            /\ result'["t1"].out = "nat_error"
            /\ active' = active
            /\ active[frame["t1"].net].on
            /\ ~active[frame["t1"].net].ie]_vars
    /\ [][InternetCallOfInactive =>
            /\ pc' = pc
            /\ result'["t1"].out = "inactive"
            /\ result'["t1"].log = <<>>
            /\ sys' = sys
            /\ unit' = unit]_vars

C36_Witness ==
    /\ result["t1"].op = "enable_internet"
    /\ result["t1"].out = "nat_error"
    /\ active[result["t1"].net].on
    /\ ~active[result["t1"].net].ie
    /\ natRules[result["t1"].net] # {}

\* a step is a call of set_tx_power_level or get_tx_power_info that has
\* returned or raised
PowerStep ==
    /\ Len(ret') = Len(ret) + 1
    /\ ret'[Len(ret')].op \in {"set_tx_power_level", "get_tx_power_info"}

\* the level of the last successful set_tx_power_level for net_id n among
\* the first k calls, 0 when there is none
RECURSIVE LastSet(_, _)
LastSet(n, k) ==
    IF k = 0 THEN 0
    ELSE IF /\ ret[k].op = "set_tx_power_level"
            /\ ret[k].net = n
            /\ ret[k].out = "ok"
         THEN ret[k].level
         ELSE LastSet(n, k - 1)

\* C37: a set_tx_power_level(net_id, L) that returns leaves L as the stored
\* level of net_id; while the network stays in the active map the stored
\* level is the one of the last successful set, and so is the current_level
\* every get_tx_power_info reports; a set_tx_power_level that raises leaves
\* every stored level as it was
C37_StoredLevel ==
    /\ [][PowerStep =>
            LET call == ret'[Len(ret')]
            IN IF call.op = "set_tx_power_level" /\ call.out = "ok"
               THEN /\ call.level \in Levels
                    /\ InActive(call.net)
                    /\ active'[call.net].tx_power_level = call.level
                    /\ \A m \in ConfigNets \ {call.net} : active'[m] = active[m]
               ELSE active' = active]_vars
    /\ [](\A n \in ConfigNets :
            (InActive(n) /\ LastSet(n, Len(ret)) # 0) =>
                active[n].tx_power_level = LastSet(n, Len(ret)))
    /\ [](\A k \in 1..Len(ret) :
            (/\ ret[k].op = "get_tx_power_info"
             /\ ret[k].out = "ok"
             /\ LastSet(ret[k].net, k) # 0) =>
                ret[k].level = LastSet(ret[k].net, k))
    /\ [][\A n \in ConfigNets :
            (/\ InActive(n)
             /\ active'[n].on
             /\ active'[n].tx_power_level # active[n].tx_power_level) =>
                (/\ PowerStep
                 /\ ret'[Len(ret')] =
                      PowerRecord("set_tx_power_level", n,
                                  active'[n].tx_power_level, "ok"))]_vars

C37_Witness ==
    /\ Len(ret) = 2
    /\ ret[1] = PowerRecord("set_tx_power_level", "a", 3, "ok")
    /\ ret[2] = PowerRecord("get_tx_power_info", "a", 3, "ok")
    /\ active["a"].tx_power_level = 3

\* C38: with no operation in progress, every network in the active map has
\* its internet_enabled flag set exactly when the masquerade rule and the
\* two forwarding rules tagged for its net_id are installed
C38_FlagMatchesRules ==
    AllIdle =>
        \A n \in ConfigNets :
            InActive(n) => (active[n].ie <=> natRules[n] = RuleKinds)

\* the rules of a chain that are not tagged for net_id
NotTagged(chain, net_id) ==
    SelectSeq(chain, LAMBDA r : /\ r.tag # "wilab-forward-" \o net_id
                                /\ r.tag # "wilab-nat-" \o net_id)

\* the rules of a chain other than the isolation rules with subnet as an
\* endpoint
NotIsolating(chain, subnet) ==
    SelectSeq(chain, LAMBDA r : ~(/\ r.tag = "wilab-isolation"
                                  /\ (r.src = subnet \/ r.dst = subnet)))

\* C39: every step of stop_network(A) leaves the status entry, the DHCP
\* instance, the AP instance and the NAT rules of every other net_id as
\* they were and drops no other network from the IsolationManager; a
\* disable_nat for A leaves every rule of the two chains that is not tagged
\* for A in place; a remove_network of A's subnet leaves every rule in place
\* but the isolation rules with that subnet as an endpoint
C39_TeardownFrame ==
    /\ [][frame["t1"].op = "stop" =>
            /\ \A B \in ConfigNets \ {frame["t1"].net} :
                 /\ active'[B] = active[B]
                 /\ dhcpInst'[B] = dhcpInst[B]
                 /\ apInst'[B] = apInst[B]
                 /\ natRules'[B] = natRules[B]
                 /\ B \in isoSubnets => B \in isoSubnets'
            /\ unit' = unit]_vars
    /\ [][(Len(ret') = Len(ret) + 1 /\ ret'[Len(ret')].op = "disable_nat") =>
            /\ NotTagged(forward', ret'[Len(ret')].net)
                 = NotTagged(forward, ret'[Len(ret')].net)
            /\ NotTagged(postrouting', ret'[Len(ret')].net)
                 = NotTagged(postrouting, ret'[Len(ret')].net)
            /\ isoActive' = isoActive
            /\ sys' = sys]_vars
    /\ [][IsoCall("remove_network") =>
            /\ NotIsolating(forward', ret'[Len(ret')].subnet)
                 = NotIsolating(forward, ret'[Len(ret')].subnet)
            /\ postrouting' = postrouting
            /\ isoActive \ isoActive' \subseteq {ret'[Len(ret')].subnet}
            /\ sys' = sys]_vars

\* stop_network("a") has returned beside an active "b" with internet access,
\* and a disable_nat for "a" has removed its three rules beside those of "b"
C39_Witness ==
    /\ result["t1"].op = "stop"
    /\ result["t1"].net = "a"
    /\ result["t1"].out = "returned"
    /\ result["t1"].log # <<>>
    /\ ~InActive("a")
    /\ InActive("b") /\ natRules["b"] = RuleKinds
    /\ dhcpInst["b"] = "live" /\ apInst["b"] = "live"
    /\ Len(ret) = 1
    /\ ret[1].op = "disable_nat" /\ ret[1].net = "a" /\ ret[1].added = 0 - 3
    /\ Tagged(forward, postrouting, "b") = 3

\* C40: when start_network(net_id, req) has returned the status, the AP
\* record and the DHCP record tracked for net_id are those of daemons that
\* this call launched from req, not records an earlier call left behind
C40_StartTracksFreshInstances ==
    \A t \in ApiThreads :
        (result[t].op = "start" /\ result[t].out = "status")
          => /\ apInst[result[t].net] = "live"
             /\ dhcpInst[result[t].net] = "live"

========================================================================
